---- MODULE Spec2Model ----
(***************************************************************************)
(* Deffatest Slack bot: the webhook route POST /webhooks/deffatest (Spec), *)
(* the secret cipher and process start (SpecCipher), the record store with *)
(* the /deffatest test command (SpecStore), the OAuth installation flow    *)
(* (SpecOAuth), the rate limiter and the routes (SpecLimit), the logger's  *)
(* sanitizer (SpecLog), and /deffatest commands interleaved with the       *)
(* webhooks about the tests they start (SpecTests).                        *)
(*                                                                         *)
(* A string is modelled as the sequence of its lexemes: single characters  *)
(* for header values, secrets and hex digests, JSON tokens for request     *)
(* bodies.  String concatenation is \o.                                    *)
(*                                                                         *)
(* HMAC-SHA256 is abstracted by a keyed fold over the lexemes truncated to *)
(* DigestLen bytes; hex encoding and decoding, parseInt, JSON.parse and    *)
(* JSON.stringify are computed.  AES-256-GCM is abstracted by a keyed      *)
(* stream cipher in counter mode with a 16-byte tag over key, IV and       *)
(* ciphertext; crypto.randomBytes is a choice among MaxRandom values.      *)
(***************************************************************************)
EXTENDS Integers, Sequences, FiniteSets, TLC

VARIABLES
  env,          \* process.env
  currentLevel, \* the logger's level, fixed when the logger module loads
  now,          \* the clock read by Date.now()
  pc,           \* where the request on the route is: idle, handler, done
  req,          \* the request on the route
  at,           \* the clock when the verifier ran on req
  res,          \* the responses sent for req
  nextCalls,    \* how often the verifier called next() for req
  handlerCalls, \* how often handleWebhook ran for req
  sideEffects,  \* record-store and chat calls made for req
  logs,         \* what the logger wrote for req
  acceptCount,  \* deliveries of this very request the verifier let through
  deliveries,   \* deliveries of this very request
  proc,         \* the process: starting, running or exited
  enc,          \* the last call of encrypt: argument, IV drawn, outcome
  dec,          \* the last call of decrypt: argument, outcome
  rows,         \* the record store's rows that hold an encrypted secret
  queries,      \* the statements saveWorkspace and linkUser sent to the store
  cmd,          \* the last call into the read path and what it answered
  oauthStates,  \* the OAuth controller's map of states issued and not yet used
  callbacks,    \* the calls of handleCallback, in the order they arrived
  oauthLog,     \* what the OAuth controller did, in order
  rateLimitMap, \* the rate limiter's map of client keys
  served,       \* the HTTP requests answered, in order
  logArgs,      \* the arguments of the last call of the logger
  slack_tests,  \* the table slack_tests, by test_id
  posts,        \* the calls of chat.postMessage by the last webhook's handler
  hooks,        \* by test_id, the last test.completed or test.failed handled
  command,      \* the /deffatest command in progress, or the one that ended last
  hook,         \* the webhook event handled last, if no command ran since
  backendTests  \* the test_ids the backend accepted from /deffatest

\* the variables of the route
routeVars == <<currentLevel, now, pc, req, at, res, nextCalls, handlerCalls,
               sideEffects, logs, acceptCount, deliveries>>

\* the variables of the cipher and of the record store
secretVars == <<proc, enc, dec, rows, queries, cmd>>

\* the variables of the OAuth controller, the rate limiter, the logger's
\* arguments and test tracking
appVars == <<oauthStates, callbacks, oauthLog, rateLimitMap, served, logArgs,
             slack_tests, posts, hooks, command,
              hook, backendTests>>

vars == <<env, routeVars, secretVars, appVars>>

-----------------------------------------------------------------------------
(* Bounds of the model *)

\* bytes of a digest (32 in the program; the comparison logic is per byte)
DigestLen == 2

\* how many deliveries of one request are followed
MaxDeliveries == 2

-----------------------------------------------------------------------------
(* Strings *)

HexLower == <<"0","1","2","3","4","5","6","7","8","9","a","b","c","d","e","f">>
HexUpper == <<"0","1","2","3","4","5","6","7","8","9","A","B","C","D","E","F">>

Alphabet ==
  HexLower \o <<"A","B","C","D","E","F">> \o
  <<"w","h","s","m","x","X","z","o","t","r","n","-","+"," ",
    "{","}",":",",","\"event\"","\"n\"","\"data\"","\"test.completed\"",
    "\"test.progress\"","{\"test_id\":\"t1\"}","1.0">>

\* the position of a lexeme in Alphabet (its code unit)
Code(c) == CHOOSE i \in 1..Len(Alphabet) : Alphabet[i] = c

Range(s) == {s[i] : i \in 1..Len(s)}

RECURSIVE Pow(_, _)
Pow(b, n) == IF n = 0 THEN 1 ELSE b * Pow(b, n - 1)

-----------------------------------------------------------------------------
(* crypto.createHmac('sha256', key).update(msg).digest('hex') *)

Modulus == Pow(256, DigestLen)

RECURSIVE Absorb(_, _)
Absorb(h, s) ==
  IF s = <<>> THEN h
  ELSE Absorb((h * 31 + Code(Head(s)) + 7) % Modulus, Tail(s))

\* the digest as a number below 256^DigestLen
HmacValue(key, msg) == Absorb(Absorb(Absorb(5381, key), msg), key)

\* the digest as DigestLen bytes, most significant first
ToBytes(v) == [i \in 1..DigestLen |-> (v \div Pow(256, DigestLen - i)) % 256]

createHmac(key, msg) == ToBytes(HmacValue(key, msg))

\* Buffer.toString('hex'): two lower-case hex digits per byte
HexEncode(bytes) ==
  [i \in 1..(2 * Len(bytes)) |->
     IF i % 2 = 1 THEN HexLower[(bytes[(i + 1) \div 2] \div 16) + 1]
     ELSE HexLower[(bytes[i \div 2] % 16) + 1]]

HexDigits == Range(HexLower) \cup Range(HexUpper)

IsHexDigit(c) == c \in HexDigits

\* the value of each hex digit
HexValues ==
  [c \in HexDigits |->
     IF c \in Range(HexLower) THEN (CHOOSE i \in 1..16 : HexLower[i] = c) - 1
     ELSE (CHOOSE i \in 1..16 : HexUpper[i] = c) - 1]

HexDigitValue(c) == HexValues[c]

\* Buffer.from(str, 'hex'): decodes pairs of hex digits, in either case, and
\* stops at the first pair that is not two hex digits; a trailing single
\* character is dropped
HexDecode(s) ==
  LET pairs == 1..(Len(s) \div 2)
      bad == {k \in pairs : ~IsHexDigit(s[2 * k - 1]) \/ ~IsHexDigit(s[2 * k])}
      n == IF bad = {} THEN Len(s) \div 2
           ELSE (CHOOSE k \in bad : \A j \in bad : k <= j) - 1
  IN [k \in 1..n |-> 16 * HexDigitValue(s[2 * k - 1]) + HexDigitValue(s[2 * k])]

\* crypto.timingSafeEqual on two buffers of equal length
timingSafeEqual(a, b) == \A i \in 1..Len(a) : a[i] = b[i]

-----------------------------------------------------------------------------
(* parseInt(string), no radix given *)

NaN == [nan |-> TRUE, value |-> 0]
Number(n) == [nan |-> FALSE, value |-> n]
isNaN(x) == x.nan

DropWhile(s, ws) ==
  LET k == CHOOSE j \in 0..Len(s) :
             /\ \A i \in 1..j : s[i] \in ws
             /\ (j < Len(s) => s[j + 1] \notin ws)
  IN SubSeq(s, k + 1, Len(s))

IsDigitIn(c, radix) ==
  /\ IsHexDigit(c)
  /\ HexDigitValue(c) < radix

\* the value of the longest prefix of s made of digits of the radix, and how
\* many lexemes that prefix has
RECURSIVE DigitsPrefix(_, _, _, _)
DigitsPrefix(s, radix, acc, n) ==
  IF s = <<>> \/ ~IsDigitIn(Head(s), radix) THEN [value |-> acc, count |-> n]
  ELSE DigitsPrefix(Tail(s), radix, acc * radix + HexDigitValue(Head(s)), n + 1)

parseInt(string) ==
  LET s0 == DropWhile(string, {" "})
      sign == IF s0 # <<>> /\ Head(s0) = "-" THEN -1 ELSE 1
      s1 == IF s0 # <<>> /\ Head(s0) \in {"-", "+"} THEN Tail(s0) ELSE s0
      hex == Len(s1) >= 2 /\ s1[1] = "0" /\ s1[2] \in {"x", "X"}
      s2 == IF hex THEN SubSeq(s1, 3, Len(s1)) ELSE s1
      d == DigitsPrefix(s2, IF hex THEN 16 ELSE 10, 0, 0)
  IN IF d.count = 0 THEN NaN ELSE Number(sign * d.value)

Abs(x) == IF x < 0 THEN -x ELSE x

-----------------------------------------------------------------------------
(* JSON.parse and JSON.stringify, on flat objects whose members are strings *)
(* and small numbers.  An object is the sequence of its members in         *)
(* insertion order.                                                         *)

Whitespace == {" "}

\* a nested object is one lexeme
ObjectTokens == {"{\"test_id\":\"t1\"}"}

\* the number a number token denotes
NumberTokens == {"0", "1", "2", "1.0"}
NumberValue(tok) == IF tok = "1.0" THEN 1 ELSE HexDigitValue(tok)

\* Number.prototype.toString for 0..9
NumberToString(n) == HexLower[n + 1]

JSONValue(tok) ==
  IF tok \in NumberTokens THEN [type |-> "number", num |-> NumberValue(tok), str |-> ""]
  ELSE IF tok \in ObjectTokens THEN [type |-> "object", num |-> 0, str |-> tok]
  ELSE [type |-> "string", num |-> 0, str |-> tok]

\* obj[key] = value: a key already present keeps its place
ObjSet(obj, key, value) ==
  IF \E i \in 1..Len(obj) : obj[i].key = key
  THEN [i \in 1..Len(obj) |->
          IF obj[i].key = key THEN [key |-> key, value |-> value] ELSE obj[i]]
  ELSE Append(obj, [key |-> key, value |-> value])

\* the members of toks = key : value , key : value ...
RECURSIVE ParseMembers(_, _)
ParseMembers(toks, obj) ==
  IF Len(toks) < 3 THEN obj
  ELSE ParseMembers(SubSeq(toks, 5, Len(toks)),
                    ObjSet(obj, toks[1], JSONValue(toks[3])))

JSONParse(text) ==
  LET toks == SelectSeq(text, LAMBDA t : t \notin Whitespace)
  IN ParseMembers(SubSeq(toks, 2, Len(toks) - 1), <<>>)

StringifyValue(v) ==
  IF v.type = "number" THEN <<NumberToString(v.num)>> ELSE <<v.str>>

RECURSIVE StringifyMembers(_)
StringifyMembers(obj) ==
  IF obj = <<>> THEN <<>>
  ELSE <<Head(obj).key, ":">> \o StringifyValue(Head(obj).value)
         \o (IF Len(obj) > 1 THEN <<",">> ELSE <<>>)
         \o StringifyMembers(Tail(obj))

JSONStringify(obj) == <<"{">> \o StringifyMembers(obj) \o <<"}">>

\* body.event; "" stands for undefined
ObjGet(obj, key) ==
  IF \E i \in 1..Len(obj) : obj[i].key = key
  THEN (obj[CHOOSE i \in 1..Len(obj) : obj[i].key = key]).value.str
  ELSE ""

-----------------------------------------------------------------------------
(* utils/logger.js *)

LOG_LEVELS == [ERROR |-> 0, WARN |-> 1, INFO |-> 2, DEBUG |-> 3]

\* what a call of the logger writes to the console: one entry, or nothing
LogEntry(lvl, threshold, name, message, args) ==
  IF lvl >= threshold
  THEN <<[level |-> name, message |-> message, args |-> args]>>
  ELSE <<>>

loggerError(lvl, message, args) == LogEntry(lvl, LOG_LEVELS.ERROR, "ERROR", message, args)
\* warnings written only at debug level
loggerWarnAtDebug(lvl, message, args) ==
  LogEntry(lvl, LOG_LEVELS.DEBUG, "WARN", message, args)

loggerWarn(lvl, message, args) == LogEntry(lvl, LOG_LEVELS.WARN, "WARN", message, args)
loggerInfo(lvl, message, args) == LogEntry(lvl, LOG_LEVELS.INFO, "INFO", message, args)
loggerDebug(lvl, message, args) == LogEntry(lvl, LOG_LEVELS.DEBUG, "DEBUG", message, args)

-----------------------------------------------------------------------------
(* middleware/auth.js: verifyDeffatestWebhook *)

SignatureHeader == "x-deffatest-signature"
TimestampHeader == "x-deffatest-timestamp"
SecretVar == "DEFFATEST_WEBHOOK_SECRET"

\* !value for a header or environment value: undefined or the empty string
Falsy(map, name) == name \notin DOMAIN map \/ map[name] = <<>>

fiveMinutes == 5 * 60 * 1000

\* what the verifier did with a request
Rejected(status, error, log) ==
  [next |-> FALSE, res |-> <<[status |-> status, body |-> [error |-> error]]>>,
   log |-> log]

\* a verifier that keeps a ledger: a request let through once is refused after
ProceedUnlessSeen ==
  [next |-> acceptCount = 0,
   res |-> IF acceptCount = 0 THEN <<>>
           ELSE <<[status |-> 401, body |-> [error |-> "Invalid signature"]]>>,
   log |-> <<>>]

Proceed == [next |-> TRUE, res |-> <<>>, log |-> <<>>]

HeadersMissing(headers) ==
  Falsy(headers, SignatureHeader) \/ Falsy(headers, TimestampHeader)

\* the window's edge taken as stale
TimestampInvalidAtEdge(timestampMs, t) ==
  isNaN(timestampMs) \/ Abs(t - timestampMs.value) >= fiveMinutes

\* only timestamps from the future refused
TimestampInvalidFutureOnly(timestampMs, t) ==
  isNaN(timestampMs) \/ timestampMs.value - t > fiveMinutes

TimestampInvalid(timestampMs, t) ==
  isNaN(timestampMs) \/ Abs(t - timestampMs.value) > fiveMinutes

\* the signed string is the timestamp header followed by JSON.stringify(req.body)
SignedString(timestamp, body) == timestamp \o JSONStringify(body)

ExpectedSignature(webhookSecret, timestamp, body) ==
  HexEncode(createHmac(webhookSecret, SignedString(timestamp, body)))

RejectMissingHeaders(lvl) ==
  Rejected(401, "Missing signature",
           loggerWarn(lvl, <<"Webhook missing signature headers">>, <<>>))

\* the stale request answered 403
RejectTimestampForbidden(lvl) ==
  Rejected(403, "Invalid timestamp",
           loggerWarn(lvl, <<"Webhook timestamp too old or invalid">>, <<>>))

RejectTimestamp(lvl) ==
  Rejected(401, "Invalid timestamp",
           loggerWarn(lvl, <<"Webhook timestamp too old or invalid">>, <<>>))

\* a missing secret lets the request through
AllowWithoutSecret(lvl) == [next |-> TRUE, res |-> <<>>, log |-> <<>>]

RejectNoSecret(lvl) ==
  Rejected(500, "Server configuration error",
           loggerError(lvl, <<"DEFFATEST_WEBHOOK_SECRET not configured">>, <<>>))

RejectLength(lvl) ==
  Rejected(401, "Invalid signature",
           loggerWarn(lvl, <<"Webhook signature length mismatch">>, <<>>))

\* a wrong signature logged and let through
WarnAndProceed(lvl) ==
  [next |-> TRUE, res |-> <<>>,
   log |-> loggerWarn(lvl, <<"Webhook signature verification failed">>, <<>>)]

RejectSignature(lvl) ==
  Rejected(401, "Invalid signature",
           loggerWarn(lvl, <<"Webhook signature verification failed">>, <<>>))

\* lines 43-65: the comparison of the received with the expected signature
CompareSignature(signature, expectedSignature, lvl) ==
  LET signatureBuffer == HexDecode(signature)
      expectedBuffer == HexDecode(expectedSignature)
  IN IF Len(signatureBuffer) # Len(expectedBuffer) THEN RejectLength(lvl)
     ELSE IF ~timingSafeEqual(signatureBuffer, expectedBuffer) THEN RejectSignature(lvl)
     ELSE Proceed

verifyDeffatestWebhook(request, e, lvl, t) ==
  IF HeadersMissing(request.headers) THEN RejectMissingHeaders(lvl)
  ELSE IF TimestampInvalid(parseInt(request.headers[TimestampHeader]), t)
  THEN RejectTimestamp(lvl)
  ELSE IF Falsy(e, SecretVar) THEN RejectNoSecret(lvl)
  ELSE CompareSignature(
         request.headers[SignatureHeader],
         ExpectedSignature(e[SecretVar], request.headers[TimestampHeader],
                           request.body),
         lvl)

-----------------------------------------------------------------------------
(* controllers/webhooks.js, as far as the route needs it: which event is   *)
(* dispatched, what is logged, how many record-store and chat calls are    *)
(* made, and whether the handler throws.  found: getTestInfo finds the     *)
(* test; chatOk: chat.postMessage succeeds.                                *)

HandlerResult(threw, log, effects) == [threw |-> threw, log |-> log, effects |-> effects]

handleTestCompleted(data, lvl, found, chatOk) ==
  IF data = "" THEN HandlerResult(TRUE, <<>>, 0)
  ELSE IF ~found
  THEN HandlerResult(FALSE, loggerWarn(lvl, <<"Test not found in database: ", data>>, <<>>), 1)
  ELSE IF chatOk
  THEN HandlerResult(FALSE,
         loggerInfo(lvl, <<"Completion notification sent for test ", data>>, <<>>), 4)
  ELSE HandlerResult(FALSE,
         loggerError(lvl, <<"Failed to send completion notification:">>, <<"chat error">>), 3)

handleWebhook(body, lvl, found, chatOk) ==
  LET event == ObjGet(body, "\"event\"")
      data == ObjGet(body, "\"data\"")
      received == loggerInfo(lvl, <<"Webhook received: ", event>>, <<>>)
      r == IF event = "\"test.completed\"" THEN handleTestCompleted(data, lvl, found, chatOk)
           ELSE IF event = "\"test.progress\"" THEN HandlerResult(FALSE, <<>>, 0)
           ELSE HandlerResult(FALSE, loggerDebug(lvl, <<"Unknown webhook event:">>, <<event>>), 0)
  IN HandlerResult(r.threw, received \o r.log, r.effects)

\* the route's handler, run after the verifier called next()
RouteHandler(body, lvl, found, chatOk) ==
  LET h == handleWebhook(body, lvl, found, chatOk)
  IN IF h.threw
     THEN [res |-> <<[status |-> 500, body |-> [error |-> "Internal error"]]>>,
           log |-> h.log \o loggerError(lvl, <<"Webhook error:">>, <<"TypeError">>),
           effects |-> h.effects]
     ELSE [res |-> <<[status |-> 200, body |-> [success |-> TRUE]]>>,
           log |-> h.log, effects |-> h.effects]

-----------------------------------------------------------------------------
(* The requests, environments and clock readings the model draws from *)

whsec == <<"w","h","s","e","c">>
otherSecret == <<"o","t","h","e","r">>

\* DEFFATEST_WEBHOOK_SECRET unset or set; NODE_ENV unset or production
Envs ==
  {secret @@ mode :
     secret \in {<<>>, SecretVar :> whsec},
     mode \in {<<>>, "NODE_ENV" :> <<"production">>}}

ts1000 == <<"1","0","0","0">>
ts400000 == <<"4","0","0","0","0","0">>

\* <<>> stands for a request without the header
TimestampValues ==
  {<<>>, ts1000, ts400000, <<"1","0","0","0","m","s">>, <<"0","x","3","e","8">>,
   <<"s","o","o","n">>}

emptyBody == <<"{", "}">>
spacedBody == <<"{", " ", "}">>
completedBody ==
  <<"{", "\"event\"", ":", "\"test.completed\"", ",",
    "\"data\"", ":", "{\"test_id\":\"t1\"}", "}">>
noDataBody == <<"{", "\"event\"", ":", "\"test.completed\"", "}">>
progressBody ==
  <<"{", "\"event\"", ":", "\"test.progress\"", ",", "\"n\"", ":", "1.0", "}">>

RawBodies == {emptyBody, spacedBody, completedBody, noDataBody, progressBody}

\* what the sender computes: HMAC-SHA256(secret, timestamp + raw body), in hex
SenderSignature(secret, timestamp, rawBody) ==
  HexEncode(createHmac(secret, timestamp \o rawBody))

ToUpper(s) ==
  [i \in 1..Len(s) |->
     IF s[i] \in Range(HexLower) THEN HexUpper[HexDigitValue(s[i]) + 1] ELSE s[i]]

ToLower(s) ==
  [i \in 1..Len(s) |->
     IF s[i] \in Range(HexUpper) THEN HexLower[HexDigitValue(s[i]) + 1] ELSE s[i]]

\* another hex digit in the first place
Flip(s) ==
  [i \in 1..Len(s) |->
     IF i = 1 THEN HexLower[((HexDigitValue(s[1]) + 1) % 16) + 1] ELSE s[i]]

\* the signature headers tried with a timestamp and a raw body: the sender's,
\* the one over the re-serialized body and variations of it, one made with
\* another secret, and none
SignatureValues(timestamp, rawBody) ==
  LET canon == SenderSignature(whsec, timestamp, JSONStringify(JSONParse(rawBody)))
  IN {<<>>,
      SenderSignature(whsec, timestamp, rawBody),
      canon,
      ToUpper(canon),
      canon \o <<"z", "z">>,
      canon \o <<"0", "0">>,
      SubSeq(canon, 1, Len(canon) - 2),
      Flip(canon),
      SenderSignature(otherSecret, timestamp, rawBody)}

Header(name, value) == IF value = <<>> THEN <<>> ELSE name :> value

\* req.body is the value the body parser made of the raw body
Request(signature, timestamp, rawBody) ==
  [headers |-> Header(SignatureHeader, signature) @@ Header(TimestampHeader, timestamp),
   rawBody |-> rawBody,
   body |-> JSONParse(rawBody)]

Requests ==
  {Request(sig, ts, raw) :
     <<sig, ts, raw>> \in
       UNION {{<<sg, t, b>> : sg \in SignatureValues(t, b)} :
                <<t, b>> \in TimestampValues \X RawBodies}}

NoRequest == [headers |-> <<>>, rawBody |-> <<>>, body |-> <<>>]

\* clock readings around the window's edges of both timestamps
TimePoints ==
  {1001, 400000 - fiveMinutes - 1, 400000 - fiveMinutes,
   1000 + fiveMinutes, 1000 + fiveMinutes + 1, 1000 + 6 * 60 * 1000}

-----------------------------------------------------------------------------
(* Values and outcomes of calls *)

\* null or undefined
Null == [null |-> TRUE, str |-> <<>>]

\* a string
Str(s) == [null |-> FALSE, str |-> s]

\* !v for a value that is null, undefined or a string
Not(v) == v.null \/ v.str = <<>>

\* the call returned v
Return(v) == [threw |-> FALSE, value |-> v, error |-> "none"]

\* the call threw new Error(message)
Throw(message) == [threw |-> TRUE, value |-> Null, error |-> message]

\* encrypt and decrypt have not been called
NoEncrypt ==
  [called |-> FALSE, plaintext |-> Null, iv |-> <<>>, result |-> Return(Null)]
NoDecrypt ==
  [called |-> FALSE, encryptedData |-> Null, result |-> Return(Null)]

\* a table without the row looked for; damaged tells that the secret is no
\* longer what was written
NoRow == [present |-> FALSE, secret |-> Null, damaged |-> FALSE]
NoRows == [workspaces |-> NoRow, user_links |-> NoRow, tests |-> FALSE]

\* the record store has not been called
NoCommand ==
  [op |-> "none", result |-> Return(Null), object |-> FALSE,
   decrypted |-> Return(Null), responded |-> <<>>, submitted |-> 0]

\* a Map: new Map(), set, delete
EmptyMap == [k \in {} |-> k]
MapSet(m, k, v) == [x \in DOMAIN m \cup {k} |-> IF x = k THEN v ELSE m[x]]
MapDelete(m, k) == [x \in DOMAIN m \ {k} |-> m[x]]

\* no /deffatest command is in progress
NoTestCommand ==
  [pc |-> "none", text |-> <<>>, responded |-> <<>>, test_id |-> "", log |-> <<>>]

\* nothing was installed, limited, logged, tracked or posted yet
AppIdle ==
  /\ oauthStates = EmptyMap
  /\ callbacks = <<>>
  /\ oauthLog = <<>>
  /\ rateLimitMap = EmptyMap
  /\ served = <<>>
  /\ logArgs = <<>>
  /\ slack_tests = EmptyMap
  /\ posts = <<>>
  /\ hooks = EmptyMap
  /\ command = NoTestCommand
  /\ hook = <<>>
  /\ backendTests = {}

-----------------------------------------------------------------------------
(* The route POST /webhooks/deffatest *)

Init ==
  /\ env \in Envs
  /\ currentLevel =
       IF "NODE_ENV" \in DOMAIN env /\ env["NODE_ENV"] = <<"production">>
       THEN LOG_LEVELS.INFO ELSE LOG_LEVELS.DEBUG
  /\ now = 1001
  /\ pc = "idle"
  /\ req = NoRequest
  /\ at = 0
  /\ res = <<>>
  /\ nextCalls = 0
  /\ handlerCalls = 0
  /\ sideEffects = 0
  /\ logs = <<>>
  /\ acceptCount = 0
  /\ deliveries = 0
  /\ proc = "running"
  /\ enc = NoEncrypt
  /\ dec = NoDecrypt
  /\ rows = NoRows
  /\ queries = <<>>
  /\ cmd = NoCommand
  /\ AppIdle

\* the verifier runs on r; next() hands the request to the route's handler
Verify(r, accepts, delivered) ==
  LET v == verifyDeffatestWebhook(r, env, currentLevel, now)
  IN /\ req' = r
     /\ at' = now
     /\ res' = v.res
     /\ logs' = v.log
     /\ nextCalls' = IF v.next THEN 1 ELSE 0
     /\ handlerCalls' = 0
     /\ sideEffects' = 0
     /\ acceptCount' = accepts + (IF v.next THEN 1 ELSE 0)
     /\ deliveries' = delivered + 1
     /\ pc' = IF v.next THEN "handler" ELSE "done"
     /\ UNCHANGED <<env, currentLevel, now, secretVars, appVars>>

\* a request arrives
Deliver ==
  /\ pc = "idle"
  /\ \E r \in Requests : Verify(r, 0, 0)

\* the request just answered arrives again, unchanged
Redeliver ==
  /\ pc = "done"
  /\ deliveries < MaxDeliveries
  /\ Verify(req, acceptCount, deliveries)

\* the route's handler runs to its response
Handle ==
  /\ pc = "handler"
  /\ \E found, chatOk \in BOOLEAN :
       LET h == RouteHandler(req.body, currentLevel, found, chatOk)
       IN /\ res' = res \o h.res
          /\ logs' = logs \o h.log
          /\ sideEffects' = sideEffects + h.effects
  /\ handlerCalls' = handlerCalls + 1
  /\ pc' = "done"
  /\ UNCHANGED <<env, currentLevel, now, req, at, nextCalls, acceptCount, deliveries>>
  /\ UNCHANGED <<secretVars, appVars>>

\* the request is forgotten
Forget ==
  /\ pc = "done"
  /\ pc' = "idle"
  /\ req' = NoRequest
  /\ at' = 0
  /\ res' = <<>>
  /\ logs' = <<>>
  /\ nextCalls' = 0
  /\ handlerCalls' = 0
  /\ sideEffects' = 0
  /\ acceptCount' = 0
  /\ deliveries' = 0
  /\ UNCHANGED <<env, currentLevel, now, secretVars, appVars>>

\* time passes
Tick ==
  /\ pc \in {"idle", "done"}
  /\ \E t \in TimePoints : t > now /\ now' = t
  /\ UNCHANGED <<env, currentLevel, pc, req, at, res, nextCalls, handlerCalls,
                 sideEffects, logs, acceptCount, deliveries, secretVars, appVars>>

Next == Deliver \/ Redeliver \/ Handle \/ Forget \/ Tick

Spec == Init /\ [][Next]_vars

-----------------------------------------------------------------------------
(* Properties of the webhook verifier.  They read the request on the route *)
(* (req), the clock when the verifier ran (at) and what came of it.        *)

Verified == pc # "idle"
Accepted == Verified /\ nextCalls = 1
Refused == Verified /\ nextCalls = 0

HasSignature == SignatureHeader \in DOMAIN req.headers
HasTimestamp == TimestampHeader \in DOMAIN req.headers
HasBothHeaders == HasSignature /\ HasTimestamp
SecretSet == SecretVar \in DOMAIN env /\ env[SecretVar] # <<>>

ReqSignature == req.headers[SignatureHeader]
ReqTimestamp == req.headers[TimestampHeader]
ReqTimestampMs == parseInt(ReqTimestamp)

\* only decimal digits, at least one
IsDecimal(s) == s # <<>> /\ \A i \in 1..Len(s) : IsDigitIn(s[i], 10)

\* the timestamp parses and is at most 300000 ms from the clock reading
Fresh == ~isNaN(ReqTimestampMs) /\ Abs(at - ReqTimestampMs.value) <= 300000

\* bytes and hex of HMAC(secret, timestamp + body string)
ExpectedBytes == createHmac(env[SecretVar], ReqTimestamp \o JSONStringify(req.body))
ExpectedHex == HexEncode(ExpectedBytes)

Response(status, error) == <<[status |-> status, body |-> [error |-> error]]>>

\* C1: the verifier calls next() only when both headers are present, the
\* timestamp is fresh, the secret is configured and the signature decodes to
\* the expected HMAC; a refused request gets exactly one error response, and
\* the handler never runs and makes no record-store or chat call for it.
C1_NextOnlyAfterAllChecks ==
  /\ Accepted =>
       /\ HasBothHeaders
       /\ Fresh
       /\ SecretSet
       /\ HexDecode(ReqSignature) = ExpectedBytes
  /\ Refused =>
       /\ Len(res) = 1
       /\ res[1].status \in {401, 500}
       /\ handlerCalls = 0
       /\ sideEffects = 0
       /\ pc = "done"
  /\ handlerCalls <= nextCalls

\* an accepted request whose handler ran and called the record store and chat
C1_Witness ==
  /\ Accepted
  /\ pc = "done"
  /\ handlerCalls = 1
  /\ sideEffects > 0

\* C2, as claimed: with the secret unset every request is answered 500
C2_UnsetSecretAlways500 ==
  (Verified /\ ~SecretSet) => res = Response(500, "Server configuration error")

\* C2, amended: with the secret unset no request is let through; a request
\* with both headers and a fresh timestamp is answered 500 whatever its body
\* and signature; one without a header or with a stale or unparsable timestamp
\* is answered 401 by the earlier checks.
C2_UnsetSecretNeverAccepts ==
  (Verified /\ ~SecretSet) =>
    /\ Refused
    /\ (HasBothHeaders /\ Fresh) => res = Response(500, "Server configuration error")
    /\ ~HasBothHeaders => res = Response(401, "Missing signature")
    /\ (HasBothHeaders /\ ~Fresh) => res = Response(401, "Invalid timestamp")

\* the sender's own signature on a fresh request, refused with 500
C2_Witness ==
  /\ Verified /\ ~SecretSet
  /\ HasBothHeaders /\ Fresh
  /\ ReqSignature = SenderSignature(whsec, ReqTimestamp, req.rawBody)
  /\ res = Response(500, "Server configuration error")

\* C3: with a decimal timestamp, the only signature header accepted is the hex
\* encoding of the HMAC (the case of the hex letters aside): nothing shorter,
\* nothing longer, nothing that is not all hex digits.
C3_OnlyExactHexAccepted ==
  (Accepted /\ IsDecimal(ReqTimestamp)) => ToLower(ReqSignature) = ExpectedHex

\* C4: a request the sender signed over its raw body, with a fresh decimal
\* timestamp, is accepted whatever the raw body's formatting.
C4_RawBodySignatureAccepted ==
  (/\ Verified /\ SecretSet /\ HasBothHeaders /\ Fresh
   /\ IsDecimal(ReqTimestamp)
   /\ ReqSignature = SenderSignature(env[SecretVar], ReqTimestamp, req.rawBody))
  => Accepted

\* C5: with both headers present the request is refused as stale exactly when
\* the timestamp does not parse or is more than 300000 ms from the clock, in
\* the past or in the future; exactly 300000 ms away passes.
C5_StaleExactlyOutsideWindow ==
  (Verified /\ HasBothHeaders) =>
    /\ res = Response(401, "Invalid timestamp") <=>
         (isNaN(ReqTimestampMs)
            \/ at - ReqTimestampMs.value > 300000
            \/ ReqTimestampMs.value - at > 300000)
    /\ ReqTimestamp = ts1000 =>
         (res = Response(401, "Invalid timestamp") <=> at > 301000)
    /\ ReqTimestamp = ts400000 =>
         (res = Response(401, "Invalid timestamp") <=> at < 100000)

\* a request accepted at timestamp + 1 ms, delivered again at timestamp + 6
\* minutes and refused as stale
C5_Witness ==
  /\ Verified /\ HasBothHeaders
  /\ ReqTimestamp = ts1000
  /\ acceptCount = 1 /\ deliveries = 2
  /\ at = 361000
  /\ res = Response(401, "Invalid timestamp")

\* a delivery of the request already on the route, by the same clock reading
\* or a later one
IsRedelivery == pc = "done" /\ pc' # "idle" /\ deliveries' = deliveries + 1

FirstFailure ==
  IF ~HasBothHeaders THEN "missing credentials"
  ELSE IF ~Fresh THEN "stale"
  ELSE IF ~SecretSet THEN "configuration"
  ELSE "signature"

ErrorLabels ==
  {"Missing signature", "Invalid timestamp", "Server configuration error",
   "Invalid signature"}

\* C8: every refusal is answered by the fixed status and label of its reason:
\* 401 Missing signature, 401 Invalid timestamp, 500 Server configuration
\* error, 401 Invalid signature (for a wrong length and for a wrong value);
\* the body holds the label and nothing else.
C8_FixedErrorPerReason ==
  Refused =>
    /\ Len(res) = 1
    /\ DOMAIN res[1].body = {"error"}
    /\ res[1].body.error \in ErrorLabels
    /\ FirstFailure = "missing credentials" => res = Response(401, "Missing signature")
    /\ FirstFailure = "stale" => res = Response(401, "Invalid timestamp")
    /\ FirstFailure = "configuration" => res = Response(500, "Server configuration error")
    /\ FirstFailure = "signature" => res = Response(401, "Invalid signature")
    /\ res[1].status = 500 <=> FirstFailure = "configuration"

\* a signature of the wrong length, refused with 401 Invalid signature
C8_Witness ==
  /\ Refused /\ HasBothHeaders /\ Fresh /\ SecretSet
  /\ Len(HexDecode(ReqSignature)) # DigestLen
  /\ res = Response(401, "Invalid signature")

\* C9: a timestamp header that is not a decimal integer is refused as
\* unparsable by the freshness check (seen with the secret set, where the
\* verifier goes on to the signature).
C9_NonDecimalTimestampRefused ==
  (Verified /\ SecretSet /\ HasBothHeaders /\ ~IsDecimal(ReqTimestamp))
    => res = Response(401, "Invalid timestamp")

VerifierMessages ==
  {<<"Webhook missing signature headers">>, <<"Webhook timestamp too old or invalid">>,
   <<"DEFFATEST_WEBHOOK_SECRET not configured">>, <<"Webhook signature length mismatch">>,
   <<"Webhook signature verification failed">>}

\* no entry carries anything but one of the verifier's fixed messages
NoSecretInLogs ==
  \A i \in 1..Len(logs) : logs[i].message \in VerifierMessages /\ logs[i].args = <<>>

\* C10, as claimed: every refusal (here of a request whose timestamp, if it
\* has one, is decimal) is logged at warning level, and no entry holds the
\* secret or the computed signature.
C10_RefusalsLoggedAsWarnings ==
  (Refused /\ (HasTimestamp => IsDecimal(ReqTimestamp)))
    => (Len(logs) = 1 /\ logs[1].level = "WARN" /\ NoSecretInLogs)

\* C10, amended: every refusal writes exactly one log entry: at warning level
\* for missing headers, a stale timestamp, a signature of the wrong length and
\* a wrong signature, at error level for an unconfigured secret; no entry
\* holds the secret or the computed signature.
C10_RefusalsLogged ==
  Refused =>
    /\ Len(logs) = 1
    /\ logs[1].level = IF FirstFailure = "configuration" THEN "ERROR" ELSE "WARN"
    /\ NoSecretInLogs
    /\ FirstFailure = "missing credentials"
         => logs[1].message = <<"Webhook missing signature headers">>
    /\ FirstFailure = "stale"
         => logs[1].message = <<"Webhook timestamp too old or invalid">>
    /\ FirstFailure = "configuration"
         => logs[1].message = <<"DEFFATEST_WEBHOOK_SECRET not configured">>

\* the unconfigured secret, logged at error level in production
C10_Witness ==
  /\ Refused /\ FirstFailure = "configuration"
  /\ currentLevel = LOG_LEVELS.INFO
  /\ Len(logs) = 1 /\ logs[1].level = "ERROR"

-----------------------------------------------------------------------------
(* utils/crypto.js: the cipher *)

\* values of crypto.randomBytes that are told apart
MaxRandom == 2

\* characters of the longest plaintext
MaxPlainLen == 2

IV_LENGTH == 16
AUTH_TAG_LENGTH == 16

\* characters ENCRYPTION_KEY must have
KeyChars == 64

\* bytes of an aes-256 key
KeyBytes == 256 \div 8

KeyVar == "ENCRYPTION_KEY"

\* String.prototype.split(sep): the segments between the separators
RECURSIVE Split(_, _)
Split(s, sep) ==
  IF \A i \in 1..Len(s) : s[i] # sep THEN <<s>>
  ELSE LET k == CHOOSE i \in 1..Len(s) :
                  s[i] = sep /\ \A j \in 1..(i - 1) : s[j] # sep
       IN <<SubSeq(s, 1, k - 1)>> \o Split(SubSeq(s, k + 1, Len(s)), sep)

\* the characters plaintexts are made of, and the UTF-8 bytes of each
AsciiChars == <<"k", "x", "-", "1">>
AsciiCodes == <<107, 120, 45, 49>>
EAcute == "U+00E9"
Replacement == "U+FFFD"

Utf8Char(c) ==
  IF c = EAcute THEN <<195, 169>>
  ELSE IF c = Replacement THEN <<239, 191, 189>>
  ELSE <<AsciiCodes[CHOOSE i \in 1..Len(AsciiChars) : AsciiChars[i] = c]>>

\* the bytes of a string given as 'utf8'
RECURSIVE Utf8Encode(_)
Utf8Encode(s) ==
  IF s = <<>> THEN <<>> ELSE Utf8Char(Head(s)) \o Utf8Encode(Tail(s))

\* a byte sequence starts with the bytes of character c
StartsWith(bytes, c) ==
  /\ Len(bytes) >= Len(Utf8Char(c))
  /\ SubSeq(bytes, 1, Len(Utf8Char(c))) = Utf8Char(c)

\* each byte read as one character
RECURSIVE Latin1Decode(_)
Latin1Decode(bytes) ==
  IF bytes = <<>> THEN <<>>
  ELSE (IF \E i \in 1..Len(AsciiCodes) : AsciiCodes[i] = bytes[1]
        THEN <<AsciiChars[CHOOSE i \in 1..Len(AsciiCodes) : AsciiCodes[i] = bytes[1]]>>
        ELSE <<ToString(bytes[1])>>)
       \o Latin1Decode(Tail(bytes))

\* the string of bytes read as 'utf8': a byte below 128 is one character, a
\* well-formed sequence is its character, anything else the replacement
\* character
RECURSIVE Utf8Decode(_)
Utf8Decode(bytes) ==
  IF bytes = <<>> THEN <<>>
  ELSE IF bytes[1] < 128
  THEN Latin1Decode(<<bytes[1]>>) \o Utf8Decode(Tail(bytes))
  ELSE IF StartsWith(bytes, EAcute)
  THEN <<EAcute>> \o Utf8Decode(SubSeq(bytes, 3, Len(bytes)))
  ELSE IF StartsWith(bytes, Replacement)
  THEN <<Replacement>> \o Utf8Decode(SubSeq(bytes, 4, Len(bytes)))
  ELSE <<Replacement>> \o Utf8Decode(Tail(bytes))

\* bitwise exclusive or of two bytes
RECURSIVE Xor(_, _)
Xor(a, b) ==
  IF a = 0 THEN b
  ELSE IF b = 0 THEN a
  ELSE ((a + b) % 2) + 2 * Xor(a \div 2, b \div 2)

\* aes-256-gcm is abstracted by a keyed state of 16 bits: the key and the IV
\* are weighed into it, the key stream and the tag are read off it
Word == 256 * 256

\* the bytes lo..hi, each weighted by an odd number that tells its place
RECURSIVE Weigh(_, _, _)
Weigh(bytes, lo, hi) ==
  IF lo > hi THEN 0
  ELSE IF lo = hi THEN (bytes[lo] + 7) * (2 * lo + 1)
  ELSE Weigh(bytes, lo, (lo + hi) \div 2)
         + Weigh(bytes, ((lo + hi) \div 2) + 1, hi)

Digest(bytes) == Weigh(bytes, 1, Len(bytes)) % Word

RECURSIVE Advance(_, _)
Advance(h, n) == IF n = 0 THEN h ELSE Advance((h * 31 + 11) % Word, n - 1)

GcmState(key, iv) == (5381 + 31 * Digest(key) + 131 * Digest(iv)) % Word

\* byte i of the key stream of state h
KeyStream(h, i) == Advance(h, i) \div 256

\* the bytes combined with the key stream of state h
StreamCrypt(h, bytes) == [i \in 1..Len(bytes) |-> Xor(bytes[i], KeyStream(h, i))]

\* counter mode: the same operation encrypts and decrypts
GcmCrypt(key, iv, bytes) == StreamCrypt(GcmState(key, iv), bytes)

\* the bytes of a tag read off the state t
TagBytes(t) ==
  [j \in 1..AUTH_TAG_LENGTH |->
     IF j % 2 = 1 THEN Advance(t, (j + 1) \div 2) \div 256
     ELSE Advance(t, j \div 2) % 256]

\* cipher.getAuthTag(): the tag over key, IV and ciphertext
GcmTag(key, iv, ciphertext) ==
  TagBytes((GcmState(key, iv) * 31 + 13 + Digest(ciphertext)) % Word)

\* crypto.randomBytes(n): any of the values told apart
randomBytes(n) ==
  {[i \in 1..n |-> (101 * seed + 37 * i) % 256] : seed \in 0..(MaxRandom - 1)}

KeyError == "ENCRYPTION_KEY must be 64 hex characters (32 bytes)"
FormatError == "Invalid encrypted data format"
AuthError == "Unsupported state or unable to authenticate data"
KeyLengthError == "Invalid key length"
IvError == "Invalid initialization vector"
TagLengthError == "Invalid authentication tag length"

\* the key as a buffer, or the error thrown
getEncryptionKey(e) ==
  IF Falsy(e, KeyVar) \/ Len(e[KeyVar]) # KeyChars
  THEN [threw |-> TRUE, key |-> <<>>, error |-> KeyError]
  ELSE [threw |-> FALSE, key |-> HexDecode(e[KeyVar]), error |-> "none"]

\* crypto.createCipheriv and crypto.createDecipheriv: the error thrown for
\* a key that is not 32 bytes or an empty IV, "none" otherwise
createCipheriv(key, iv) ==
  IF Len(key) # KeyBytes THEN KeyLengthError
  ELSE IF Len(iv) = 0 THEN IvError
  ELSE "none"

\* the triple with the tag in front
EncodedTagFirst(iv, authTag, encrypted) ==
  HexEncode(authTag) \o <<":">> \o HexEncode(iv) \o <<":">> \o encrypted
\* `${iv.toString('hex')}:${authTag.toString('hex')}:${encrypted}`
EncodedSecret(iv, authTag, encrypted) ==
  HexEncode(iv) \o <<":">> \o HexEncode(authTag) \o <<":">> \o encrypted

\* the triple of an IV, the tag of the ciphertext and the ciphertext
Sealed(iv, key, encrypted) ==
  Return(Str(EncodedSecret(iv, GcmTag(key, iv, encrypted), HexEncode(encrypted))))

\* the rest of encrypt once the key was asked for: createCipheriv, update,
\* final and getAuthTag with the IV drawn, and the triple returned
cipher(plaintext, key, iv) ==
  IF key.threw THEN Throw(key.error)
  ELSE IF createCipheriv(key.key, iv) # "none"
  THEN Throw(createCipheriv(key.key, iv))
  ELSE Sealed(iv, key.key, GcmCrypt(key.key, iv, Utf8Encode(plaintext.str)))

\* the key is read before the argument is looked at
encryptKeyFirst(plaintext, e, iv) ==
  IF getEncryptionKey(e).threw THEN Throw(getEncryptionKey(e).error)
  ELSE IF Not(plaintext) THEN Return(Null)
  ELSE cipher(plaintext, getEncryptionKey(e), iv)
\* encrypt(plaintext); iv is the value crypto.randomBytes returns
encrypt(plaintext, e, iv) ==
  IF Not(plaintext) THEN Return(Null)
  ELSE cipher(plaintext, getEncryptionKey(e), iv)

\* tag lengths decipher.setAuthTag takes in GCM mode
ValidTagLengths == {4, 8, 12, 13, 14, 15, 16}

\* no tag is compared
FinalUnchecked(key, iv, authTag, ciphertext) == TRUE
\* decipher.final(): the tag set is the tag of what was decrypted
Authentic(key, iv, authTag, ciphertext) ==
  authTag = SubSeq(GcmTag(key, iv, ciphertext), 1, Len(authTag))

\* the decrypted bytes read one character per byte
decipherUpdateLatin1(key, iv, ciphertext) ==
  Latin1Decode(GcmCrypt(key, iv, HexDecode(ciphertext)))
\* decipher.update(ciphertext, 'hex', 'utf8')
decipherUpdate(key, iv, ciphertext) ==
  Utf8Decode(GcmCrypt(key, iv, HexDecode(ciphertext)))

\* createDecipheriv, setAuthTag, update and final with the key buffer and the
\* decoded segments
decipher(key, iv, authTag, ciphertext) ==
  IF createCipheriv(key, iv) # "none" THEN Throw(createCipheriv(key, iv))
  ELSE IF Len(authTag) \notin ValidTagLengths THEN Throw(TagLengthError)
  ELSE IF ~Authentic(key, iv, authTag, HexDecode(ciphertext)) THEN Throw(AuthError)
  ELSE Return(Str(decipherUpdate(key, iv, ciphertext)))

\* the rest of decrypt once the key was asked for: the segments are
\* counted and decoded
decryptParts(key, parts) ==
  IF key.threw THEN Throw(key.error)
  ELSE IF Len(parts) # 3 THEN Throw(FormatError)
  ELSE decipher(key.key, HexDecode(parts[1]), HexDecode(parts[2]), parts[3])

\* decrypt(encryptedData)
decrypt(encryptedData, e) ==
  IF Not(encryptedData) THEN Return(Null)
  ELSE decryptParts(getEncryptionKey(e), Split(encryptedData.str, ":"))

-----------------------------------------------------------------------------
(* The process and the calls of the cipher *)

requiredEnvVars ==
  <<"SLACK_CLIENT_ID", "SLACK_CLIENT_SECRET", "SLACK_SIGNING_SECRET",
    "DEFFATEST_API_URL", KeyVar>>

\* a key of 64 hex digits, one too short, one of 64 characters that end in
\* two that are no hex digits
ValidKey == HexEncode([i \in 1..KeyBytes |-> (7 * i + 3) % 256])
ShortKey == <<"a", "b", "c", "d">>
NonHexKey == SubSeq(ValidKey, 1, KeyChars - 2) \o <<"z", "z">>

\* the other required variables, all set
Configured ==
  [v \in {requiredEnvVars[i] : i \in 1..(Len(requiredEnvVars) - 1)} |-> <<"s">>]

\* ENCRYPTION_KEY unset, empty, malformed or valid; another variable unset
CipherEnvs ==
  {key @@ Configured :
     key \in {<<>>, KeyVar :> <<>>, KeyVar :> ShortKey, KeyVar :> NonHexKey,
              KeyVar :> ValidKey}}
  \cup {KeyVar :> ValidKey @@ "SLACK_CLIENT_ID" :> <<"s">>}

PlainChars == {"k", "-", EAcute}

RECURSIVE StringsUpTo(_)
StringsUpTo(n) ==
  IF n = 0 THEN {<<>>}
  ELSE StringsUpTo(n - 1)
         \cup {<<c>> \o t : c \in PlainChars, t \in StringsUpTo(n - 1)}

\* what encrypt is called with: nothing, the empty string, a string
PlaintextArgs == {Null} \cup {Str(p) : p \in StringsUpTo(MaxPlainLen)}

ReplaceAt(t, i, c) == [j \in 1..Len(t) |-> IF j = i THEN c ELSE t[j]]

\* another hex digit, d places further
OtherDigit(c, d) == HexLower[((HexDigitValue(c) + d) % 16) + 1]

Join(parts) == parts[1] \o <<":">> \o parts[2] \o <<":">> \o parts[3]

\* what becomes of a stored triple: itself; one hex digit replaced by
\* another; one replaced by a character that is no hex digit; characters
\* appended to a segment; a segment lost or added
Variants(t) ==
  LET parts == Split(t, ":")
      digits == {i \in 1..Len(t) : t[i] # ":"}
      ends == {1, IV_LENGTH * 2, Len(t) - 1, Len(t)}
  IN {t, ToUpper(t)}
     \cup {ReplaceAt(t, i, OtherDigit(t[i], d)) : i \in digits, d \in {1, 8}}
     \cup {ReplaceAt(t, i, "z") : i \in ends}
     \cup {Join([parts EXCEPT ![k] = @ \o tail]) :
             k \in 1..3, tail \in {<<"z", "z">>, <<"z">>}}
     \cup {parts[1] \o <<":">> \o parts[2], t \o <<":", "0", "0">>}

\* what decrypt is called with whatever was stored
Unstored ==
  {Null, Str(<<>>), Str(<<"z">>), Str(<<":", ":">>),
   Str(<<"0", "0", ":", "0", "0", ":", "0", "0">>),
   Str(<<"0", "0", ":", "0", "0">>), Str(<<"0", ":", "0", ":", "0", ":", "0">>)}

\* what decrypt is called with after the last call of encrypt
DecryptArgs(e) ==
  Unstored \cup
  (IF e.called /\ ~e.result.threw /\ ~e.result.value.null
   THEN {Str(v) : v \in Variants(e.result.value.str)} ELSE {})

InitCipher ==
  /\ env \in CipherEnvs
  /\ currentLevel = LOG_LEVELS.DEBUG
  /\ now = 1001
  /\ pc = "idle"
  /\ req = NoRequest
  /\ at = 0
  /\ res = <<>>
  /\ nextCalls = 0
  /\ handlerCalls = 0
  /\ sideEffects = 0
  /\ logs = <<>>
  /\ acceptCount = 0
  /\ deliveries = 0
  /\ proc = "starting"
  /\ enc = NoEncrypt
  /\ dec = NoDecrypt
  /\ rows = NoRows
  /\ queries = <<>>
  /\ cmd = NoCommand
  /\ AppIdle

\* the first required variable that is unset or empty, 0 if there is none
FirstMissing(e) ==
  IF \E i \in 1..Len(requiredEnvVars) : Falsy(e, requiredEnvVars[i])
  THEN CHOOSE i \in 1..Len(requiredEnvVars) :
         /\ Falsy(e, requiredEnvVars[i])
         /\ \A j \in 1..(i - 1) : ~Falsy(e, requiredEnvVars[j])
  ELSE 0

\* the entry module loads: process.exit(1) at the first required variable
\* that is missing
Start ==
  /\ proc = "starting"
  /\ IF FirstMissing(env) # 0
     THEN /\ proc' = "exited"
          /\ logs' = loggerError(currentLevel,
                        <<"Missing required environment variable: ",
                          requiredEnvVars[FirstMissing(env)]>>, <<>>)
     ELSE /\ proc' = "running"
          /\ logs' = logs
  /\ UNCHANGED <<env, currentLevel, now, pc, req, at, res, nextCalls,
                 handlerCalls, sideEffects, acceptCount, deliveries,
                 enc, dec, rows, queries, cmd, appVars>>

\* encrypt is called
Encrypt ==
  /\ proc = "running"
  /\ ~enc.called /\ ~dec.called
  /\ \E plaintext \in PlaintextArgs, iv \in randomBytes(IV_LENGTH) :
       LET result == encrypt(plaintext, env, iv)
       IN enc' = [called |-> TRUE, plaintext |-> plaintext,
                  iv |-> IF result.threw \/ result.value.null THEN <<>> ELSE iv,
                  result |-> result]
  /\ dec' = NoDecrypt
  /\ UNCHANGED <<env, routeVars, appVars, proc, rows, queries, cmd>>

\* decrypt is called
Decrypt ==
  /\ proc = "running"
  /\ ~dec.called
  /\ \E encryptedData \in DecryptArgs(enc) :
       dec' = [called |-> TRUE, encryptedData |-> encryptedData,
               result |-> decrypt(encryptedData, env)]
  /\ UNCHANGED <<env, routeVars, appVars, proc, enc, rows, queries, cmd>>

\* the outcomes of both calls are dropped
Discard ==
  /\ dec.called
  /\ enc' = NoEncrypt
  /\ dec' = NoDecrypt
  /\ UNCHANGED <<env, routeVars, appVars, proc, rows, queries, cmd>>

NextCipher == Start \/ Encrypt \/ Decrypt \/ Discard

SpecCipher == InitCipher /\ [][NextCipher]_vars

-----------------------------------------------------------------------------
(* Claims about the cipher *)

AllHex(t) == \A i \in 1..Len(t) : IsHexDigit(t[i])

\* ENCRYPTION_KEY is 64 hex digits
ValidKeySet ==
  /\ ~Falsy(env, KeyVar)
  /\ Len(env[KeyVar]) = 64
  /\ AllHex(env[KeyVar])

\* the last call of encrypt returned a triple
Encrypted == enc.called /\ ~enc.result.threw /\ ~enc.result.value.null

\* decrypt was called with what the last call of encrypt returned
ReadBack == Encrypted /\ dec.called /\ dec.encryptedData = enc.result.value

\* a and b are triples that differ in one place of segment k, where both
\* hold hex digits of different values
SingleDigitChanged(a, b, k) ==
  LET pa == Split(a, ":")
      pb == Split(b, ":")
  IN /\ Len(pa) = 3 /\ Len(pb) = 3
     /\ \A j \in 1..3 : Len(pa[j]) = Len(pb[j])
     /\ \A j \in (1..3) \ {k} : pa[j] = pb[j]
     /\ \E i \in 1..Len(pa[k]) :
          /\ IsHexDigit(pa[k][i]) /\ IsHexDigit(pb[k][i])
          /\ HexDigitValue(pa[k][i]) # HexDigitValue(pb[k][i])
          /\ \A j \in (1..Len(pa[k])) \ {i} : pa[k][j] = pb[k][j]

\* decrypt was called with the triple encrypt returned, one hex digit of its
\* tag (k = 2) or ciphertext (k = 3) changed
Tampered(k) ==
  /\ Encrypted /\ dec.called /\ ~dec.encryptedData.null
  /\ SingleDigitChanged(enc.result.value.str, dec.encryptedData.str, k)

C12_TamperDetected ==
  /\ (Tampered(2) \/ Tampered(3)) => dec.result = Throw(AuthError)
  /\ (Encrypted /\ dec.called /\ ~dec.result.threw /\ ~dec.result.value.null)
       => dec.result.value = enc.plaintext

\* a digit of the ciphertext was changed and decrypt threw the
\* authentication error, not the format error
C12_Witness ==
  /\ Tampered(3)
  /\ dec.result.threw
  /\ dec.result.error = AuthError
  /\ dec.result.error # FormatError

\* C14: decrypt of a non-empty string that has fewer or more than three
\* segments throws the format error
C14_WrongSegmentCountIsFormatError ==
  (dec.called /\ ~Not(dec.encryptedData)
     /\ Len(Split(dec.encryptedData.str, ":")) # 3)
    => dec.result = Throw(FormatError)

\* C15: decrypt of three segments of which one is not all hex digits throws
C15_NonHexSegmentFailsClosed ==
  (dec.called /\ ~Not(dec.encryptedData)
     /\ Len(Split(dec.encryptedData.str, ":")) = 3
     /\ \E k \in 1..3 : ~AllHex(Split(dec.encryptedData.str, ":")[k]))
    => dec.result.threw

\* C16: the process runs only with an ENCRYPTION_KEY of 64 hex digits
C16_RunsOnlyWithValidKey == proc = "running" => ValidKeySet

\* C17: encrypt and decrypt of nothing or of the empty string return null,
\* whatever the key is
C17_NullPassthrough ==
  /\ (enc.called /\ Not(enc.plaintext)) => enc.result = Return(Null)
  /\ (dec.called /\ Not(dec.encryptedData)) => dec.result = Return(Null)

\* with a malformed key encrypt returned null for no plaintext and decrypt
\* returned null for the empty string
C17_Witness ==
  /\ ~ValidKeySet
  /\ enc.called /\ enc.plaintext = Null /\ enc.result = Return(Null)
  /\ dec.called /\ dec.encryptedData = Str(<<>>) /\ dec.result = Return(Null)

\* C19: what encrypt returns is three segments of hex digits: the 16 bytes
\* of the IV drawn, the 16 bytes of the tag, the ciphertext
C19_StoredFormat ==
  Encrypted =>
    LET parts == Split(enc.result.value.str, ":")
        key == HexDecode(env[KeyVar])
    IN /\ Len(parts) = 3
       /\ \A k \in 1..3 : AllHex(parts[k]) /\ Len(parts[k]) % 2 = 0
       /\ Len(parts[1]) = 2 * 16
       /\ HexDecode(parts[1]) = enc.iv
       /\ Len(parts[2]) = 2 * 16
       /\ HexDecode(parts[2]) = GcmTag(key, enc.iv, HexDecode(parts[3]))
       /\ GcmCrypt(key, enc.iv, HexDecode(parts[3])) = Utf8Encode(enc.plaintext.str)

\* encrypt returned a triple for a string of two characters
C19_Witness ==
  /\ Encrypted
  /\ enc.plaintext = Str(<<"-", "k">>)
  /\ Len(Split(enc.result.value.str, ":")) = 3

-----------------------------------------------------------------------------
(* The record store: saveWorkspace, linkUser and the read path *)

\* errors of pool.query: the store cannot be reached; a NOT NULL column
\* (schema.sql) is given null
DbError == "connection refused"
NotNullError == "null value violates not-null constraint"

\* what a writing call did: its outcome, the statements it sent with their
\* encrypted-secret parameter, the rows afterwards, what it logged
Wrote(result, sent, rs, log) ==
  [result |-> result, queries |-> sent, rows |-> rs, log |-> log]

\* the statement pool.query is called with
Insert(table, secret) == [table |-> table, secret |-> secret]

\* INSERT ... ON CONFLICT DO UPDATE of a row's encrypted secret
Upsert(row, secret) == [present |-> TRUE, secret |-> secret, damaged |-> FALSE]

\* pool.query with the parameter secret, which the column takes unless it
\* is null; the outcome, the statement, the rows and the log
Query(table, secret, rs, dbOk, failure, success) ==
  IF ~dbOk THEN Wrote(Throw(DbError), <<Insert(table, secret)>>, rs, failure[DbError])
  ELSE IF secret.null
  THEN Wrote(Throw(NotNullError), <<Insert(table, secret)>>, rs, failure[NotNullError])
  ELSE Wrote(Return(Str(<<"1">>)), <<Insert(table, secret)>>,
             [rs EXCEPT ![table] = Upsert(@, secret)], success)

\* the rest of a writing call once encrypt was called
Persist(table, encrypted, rs, dbOk, failure, success) ==
  IF encrypted.threw THEN Wrote(Throw(encrypted.error), <<>>, rs, <<>>)
  ELSE Query(table, encrypted.value, rs, dbOk, failure, success)

saveWorkspace(bot_token, rs, e, iv, dbOk, lvl) ==
  Persist("workspaces", encrypt(bot_token, e, iv), rs, dbOk,
          [message \in {DbError, NotNullError} |->
             loggerError(lvl, <<"Failed to save workspace:">>, <<message>>)],
          loggerInfo(lvl, <<"Workspace saved: ", "T1">>, <<>>))

linkUser(deffatest_api_key, rs, e, iv, dbOk, lvl) ==
  Persist("user_links", encrypt(deffatest_api_key, e, iv), rs, dbOk,
          [message \in {DbError, NotNullError} |->
             loggerError(lvl, <<"Failed to link user:">>, <<message>>)],
          loggerInfo(lvl, <<"User linked: ", "U1">>, <<>>))

\* what a reading call did: its outcome (the decrypted secret of the object
\* returned, or null), whether it returned an object, the outcome of its
\* call of decrypt, what it logged
Read(result, object, decrypted, log) ==
  [result |-> result, object |-> object, decrypted |-> decrypted, log |-> log]

NotRead == Read(Return(Null), FALSE, Return(Null), <<>>)

\* the object with the decrypted secret, or null from the catch block
Caught(decrypted, lvl, failed) ==
  IF decrypted.threw
  THEN Read(Return(Null), FALSE, decrypted,
            loggerError(lvl, <<failed>>, <<decrypted.error>>))
  ELSE Read(Return(decrypted.value), TRUE, decrypted, <<>>)

\* the error of decrypt leaves the function
Uncaught(decrypted, lvl, failed) ==
  IF decrypted.threw THEN Read(Throw(decrypted.error), FALSE, decrypted, <<>>)
  ELSE Read(Return(decrypted.value), TRUE, decrypted, <<>>)

\* pool.query threw: null from the catch block
Unreachable(lvl, failed) ==
  Read(Return(Null), FALSE, Return(Null), loggerError(lvl, <<failed>>, <<DbError>>))

getWorkspaceToken(rs, e, dbOk, lvl) ==
  IF ~dbOk THEN Unreachable(lvl, "Failed to get workspace token:")
  ELSE IF ~rs.workspaces.present THEN NotRead
  ELSE Caught(decrypt(rs.workspaces.secret, e), lvl, "Failed to get workspace token:")

\* the error of decrypt leaves getUserLink
getUserLinkUncaught(rs, e, dbOk, lvl) ==
  IF ~dbOk THEN Unreachable(lvl, "Failed to get user link:")
  ELSE IF ~rs.user_links.present THEN NotRead
  ELSE Uncaught(decrypt(rs.user_links.secret, e), lvl, "Failed to get user link:")
getUserLink(rs, e, dbOk, lvl) ==
  IF ~dbOk THEN Unreachable(lvl, "Failed to get user link:")
  ELSE IF ~rs.user_links.present THEN NotRead
  ELSE Caught(decrypt(rs.user_links.secret, e), lvl, "Failed to get user link:")

\* slack_tests JOIN slack_workspaces
getTestInfo(rs, e, dbOk, lvl) ==
  IF ~dbOk THEN Unreachable(lvl, "Failed to get test info:")
  ELSE IF ~(rs.tests /\ rs.workspaces.present) THEN NotRead
  ELSE Caught(decrypt(rs.workspaces.secret, e), lvl, "Failed to get test info:")

-----------------------------------------------------------------------------
(* controllers/commands.js: /deffatest *)

\* what parseArgs makes of the command text, and what the text holds:
\* "help"; nothing; "--url" without a value; a URL that does not parse; a URL
TestArgs ==
  {[help |-> TRUE, url |-> Null, mentionsUrl |-> FALSE, validUrl |-> FALSE],
   [help |-> FALSE, url |-> Null, mentionsUrl |-> FALSE, validUrl |-> FALSE],
   [help |-> FALSE, url |-> Null, mentionsUrl |-> TRUE, validUrl |-> FALSE],
   [help |-> FALSE, url |-> Str(<<"notaurl">>), mentionsUrl |-> TRUE,
    validUrl |-> FALSE],
   [help |-> FALSE, url |-> Str(<<"https://example.com">>), mentionsUrl |-> TRUE,
    validUrl |-> TRUE]}

\* what the command did: the messages it answered with, the tests it
\* submitted to the backend, its call of getUserLink, the rows afterwards
Commanded(responded, submitted, userLink, rs, log) ==
  [responded |-> responded, submitted |-> submitted, userLink |-> userLink,
   rows |-> rs, log |-> log]

\* the catch block of the command
CommandError(responded, submitted, userLink, rs, lvl, message) ==
  Commanded(responded \o <<"Error">>, submitted, userLink, rs,
            userLink.log \o loggerError(lvl, <<"Test command error:">>, <<message>>))

\* the rest of the command once getUserLink was called
Submit(userLink, rs, apiOk, saveOk, lvl) ==
  IF userLink.result.threw
  THEN CommandError(<<>>, 0, userLink, rs, lvl, userLink.result.error)
  ELSE IF ~userLink.object
  THEN Commanded(<<"Authentication required">>, 0, userLink, rs, userLink.log)
  ELSE IF Not(userLink.result.value)
  THEN CommandError(<<"Submitting test...">>, 0, userLink, rs, lvl,
                    "API key is required")
  ELSE IF ~apiOk
  THEN CommandError(<<"Submitting test...">>, 1, userLink, rs, lvl,
                    "Failed to submit test")
  ELSE IF ~saveOk
  THEN CommandError(<<"Submitting test...">>, 1,
                    [userLink EXCEPT !.log =
                       @ \o loggerError(lvl, <<"Failed to save test:">>, <<DbError>>)],
                    rs, lvl, DbError)
  ELSE Commanded(<<"Submitting test...", "Test started!">>, 1, userLink,
                 [rs EXCEPT !.tests = TRUE],
                 userLink.log \o
                   loggerInfo(lvl, <<"Test submitted: ", "t1", " by ", "U1">>, <<>>))

handleTestCommand(args, rs, e, dbOk, apiOk, saveOk, lvl) ==
  IF args.help \/ (Not(args.url) /\ ~args.mentionsUrl)
  THEN Commanded(<<"help">>, 0, NotRead, rs, <<>>)
  ELSE IF Not(args.url) THEN Commanded(<<"Missing URL">>, 0, NotRead, rs, <<>>)
  ELSE IF ~args.validUrl THEN Commanded(<<"Invalid URL">>, 0, NotRead, rs, <<>>)
  ELSE Submit(getUserLink(rs, e, dbOk, lvl), rs, apiOk, saveOk, lvl)

-----------------------------------------------------------------------------
(* The calls of the record store *)

\* the bot token or API key a writing call is given
SecretArgs == {Null, Str(<<>>), Str(<<"k">>)}

ValidEnv == KeyVar :> ValidKey @@ Configured

\* a row written when the key was valid
Stored ==
  Upsert(NoRow,
         encrypt(Str(<<"k">>), ValidEnv,
                 CHOOSE iv \in randomBytes(IV_LENGTH) : iv[1] = 37).value)

\* the store is empty, or holds rows an earlier process wrote
InitialRows ==
  {NoRows, [workspaces |-> Stored, user_links |-> Stored, tests |-> TRUE]}

InitStore ==
  /\ env \in CipherEnvs
  /\ currentLevel = LOG_LEVELS.DEBUG
  /\ now = 1001
  /\ pc = "idle"
  /\ req = NoRequest
  /\ at = 0
  /\ res = <<>>
  /\ nextCalls = 0
  /\ handlerCalls = 0
  /\ sideEffects = 0
  /\ logs = <<>>
  /\ acceptCount = 0
  /\ deliveries = 0
  /\ proc = "starting"
  /\ enc = NoEncrypt
  /\ dec = NoDecrypt
  /\ rows \in InitialRows
  /\ queries = <<>>
  /\ cmd = NoCommand
  /\ AppIdle

\* what the calls of the record store leave alone
StoreUnchanged ==
  UNCHANGED <<env, currentLevel, now, pc, req, at, res, nextCalls,
              handlerCalls, sideEffects, acceptCount, deliveries, proc, enc, dec,
              appVars>>

\* a writing call w named op was made
Written(op, w) ==
  /\ rows' = w.rows
  /\ queries' = w.queries
  /\ logs' = w.log
  /\ cmd' = [NoCommand EXCEPT !.op = op, !.result = w.result]
  /\ StoreUnchanged

SaveWorkspace ==
  /\ proc = "running"
  /\ \E bot_token \in SecretArgs, iv \in randomBytes(IV_LENGTH), dbOk \in BOOLEAN :
       Written("saveWorkspace",
               saveWorkspace(bot_token, rows, env, iv, dbOk, currentLevel))

LinkUser ==
  /\ proc = "running"
  /\ \E api_key \in SecretArgs, iv \in randomBytes(IV_LENGTH), dbOk \in BOOLEAN :
       Written("linkUser", linkUser(api_key, rows, env, iv, dbOk, currentLevel))

\* a reading call r named op was made
Answered(op, r) ==
  /\ cmd' = [NoCommand EXCEPT !.op = op, !.result = r.result,
                              !.object = r.object, !.decrypted = r.decrypted]
  /\ logs' = r.log
  /\ queries' = <<>>
  /\ UNCHANGED rows
  /\ StoreUnchanged

GetWorkspaceToken ==
  /\ proc = "running"
  /\ \E dbOk \in BOOLEAN :
       Answered("getWorkspaceToken", getWorkspaceToken(rows, env, dbOk, currentLevel))

GetUserLink ==
  /\ proc = "running"
  /\ \E dbOk \in BOOLEAN :
       Answered("getUserLink", getUserLink(rows, env, dbOk, currentLevel))

GetTestInfo ==
  /\ proc = "running"
  /\ \E dbOk \in BOOLEAN :
       Answered("getTestInfo", getTestInfo(rows, env, dbOk, currentLevel))

\* /deffatest is handled
TestCommand ==
  /\ proc = "running"
  /\ \E args \in TestArgs, dbOk, apiOk, saveOk \in BOOLEAN :
       LET c == handleTestCommand(args, rows, env, dbOk, apiOk, saveOk, currentLevel)
       IN /\ cmd' = [op |-> "/deffatest", result |-> c.userLink.result,
                     object |-> c.userLink.object,
                     decrypted |-> c.userLink.decrypted,
                     responded |-> c.responded, submitted |-> c.submitted]
          /\ rows' = c.rows
          /\ logs' = c.log
  /\ queries' = <<>>
  /\ StoreUnchanged

\* what a stored triple can turn into outside the process: its last digit
\* changed, its ciphertext lost
Damaged(t) ==
  {ReplaceAt(t, Len(t), OtherDigit(t[Len(t)], 1)),
   Split(t, ":")[1] \o <<":">> \o Split(t, ":")[2]}

\* a stored secret is damaged in the store
Corrupt ==
  /\ \E table \in {"workspaces", "user_links"} :
       /\ rows[table].present /\ ~rows[table].damaged
       /\ \E t \in Damaged(rows[table].secret.str) :
            rows' = [rows EXCEPT ![table].secret = Str(t),
                                 ![table].damaged = TRUE]
  /\ UNCHANGED <<queries, cmd, logs>>
  /\ StoreUnchanged

NextStore ==
  \/ Start
  \/ SaveWorkspace
  \/ LinkUser
  \/ GetWorkspaceToken
  \/ GetUserLink
  \/ GetTestInfo
  \/ TestCommand
  \/ Corrupt

SpecStore == InitStore /\ [][NextStore]_vars

-----------------------------------------------------------------------------
(* Claims about the record store *)

ReadPath == {"getUserLink", "getWorkspaceToken", "getTestInfo"}

\* C18: under a valid key saveWorkspace and linkUser send no statement whose
\* encrypted-secret parameter is null
C18_NoNullSecretSent ==
  ValidKeySet => \A i \in 1..Len(queries) : ~queries[i].secret.null

\* C20: when decrypt throws on a stored secret, getUserLink, getWorkspaceToken
\* and getTestInfo return null and throw nothing, and /deffatest answers with
\* the account-link prompt alone and submits no test
C20_DecryptFailureReadsAsMissing ==
  /\ (cmd.op \in ReadPath /\ cmd.decrypted.threw)
       => (cmd.result = Return(Null) /\ ~cmd.object)
  /\ (cmd.op = "/deffatest" /\ cmd.decrypted.threw)
       => /\ cmd.result = Return(Null) /\ ~cmd.object
          /\ cmd.responded = <<"Authentication required">>
          /\ cmd.submitted = 0

\* /deffatest with a URL was handled for a user whose stored API key made
\* decrypt throw the authentication error
C20_Witness ==
  /\ cmd.op = "/deffatest"
  /\ rows.user_links.present
  /\ cmd.decrypted.threw /\ cmd.decrypted.error = AuthError
  /\ cmd.responded = <<"Authentication required">>
  /\ cmd.submitted = 0

-----------------------------------------------------------------------------
(* controllers/oauth.js *)

\* the calls of initiateOAuth, the calls of handleCallback and the runs of
\* the cleaning interval the model follows
MaxInstalls == 2
MaxCallbacks == 2
MaxIntervals == 3

StateBytes == 16
tenMinutes == 10 * 60 * 1000
cleanEvery == 5 * 60 * 1000

\* the callback of setInterval: states older than ten minutes are deleted
cleanStates(states, t) ==
  [s \in {x \in DOMAIN states : ~(t - states[x].created > tenMinutes)} |-> states[s]]

\* res.redirect(url), res.status(n).send(text)
Redirect(url) == [status |-> 302, body |-> url]
Send(status, text) == [status |-> status, body |-> text]

frontendUrl(e) ==
  IF Falsy(e, "FRONTEND_URL") THEN <<"https://deffatest.online">> ELSE e["FRONTEND_URL"]

ErrorRedirect(e, error) ==
  Redirect(frontendUrl(e) \o <<"/integrations/slack?error=">> \o error)

\* state is the value crypto.randomBytes(16).toString('hex') gave
initiateOAuth(e, states, state, t, lvl) ==
  IF Falsy(e, "SLACK_CLIENT_ID") \/ Falsy(e, "SLACK_REDIRECT_URI")
  THEN [states |-> states, issued |-> FALSE,
        res |-> Send(500, <<"Server configuration error">>),
        log |-> loggerError(lvl, <<"Missing SLACK_CLIENT_ID or SLACK_REDIRECT_URI">>, <<>>)]
  ELSE [states |-> MapSet(states, state, [created |-> t]), issued |-> TRUE,
        res |-> Redirect(<<"https://slack.com/oauth/v2/authorize?", "state=">> \o state),
        log |-> <<>>]

\* handleCallback with the used state left in the map
handleCallbackKeepState(query, states, e, lvl) ==
  IF ~Not(query.error)
  THEN [states |-> states, exchange |-> FALSE,
        res |-> <<ErrorRedirect(e, query.error.str)>>,
        log |-> loggerWarn(lvl, <<"OAuth denied:">>, <<query.error.str>>)]
  ELSE IF Not(query.state) \/ query.state.str \notin DOMAIN states
  THEN [states |-> states, exchange |-> FALSE,
        res |-> <<ErrorRedirect(e, <<"invalid_state">>)>>,
        log |-> loggerWarn(lvl, <<"Invalid OAuth state">>, <<>>)]
  ELSE [states |-> states, exchange |-> TRUE,
        res |-> <<>>, log |-> <<>>]

\* handleCallback up to its first await: it answers at once, or deletes the
\* state and posts the code to oauth.v2.access
handleCallback(query, states, e, lvl) ==
  IF ~Not(query.error)
  THEN [states |-> states, exchange |-> FALSE,
        res |-> <<ErrorRedirect(e, query.error.str)>>,
        log |-> loggerWarn(lvl, <<"OAuth denied:">>, <<query.error.str>>)]
  ELSE IF Not(query.state) \/ query.state.str \notin DOMAIN states
  THEN [states |-> states, exchange |-> FALSE,
        res |-> <<ErrorRedirect(e, <<"invalid_state">>)>>,
        log |-> loggerWarn(lvl, <<"Invalid OAuth state">>, <<>>)]
  ELSE [states |-> MapDelete(states, query.state.str), exchange |-> TRUE,
        res |-> <<>>, log |-> <<>>]

\* what oauth.v2.access can answer: the post throws, data.ok is false, data.ok
ExchangeResponses == {"threw", "refused", "ok"}

\* the rest of handleCallback once saveWorkspace was called
Installed(w, e, lvl) ==
  IF w.result.threw
  THEN [w EXCEPT !.result = ErrorRedirect(e, <<"exchange_failed">>),
                 !.log = @ \o loggerError(lvl, <<"OAuth callback error:">>,
                                          <<w.result.error>>)]
  ELSE [w EXCEPT !.result = Redirect(<<"/slack/success?team=", "T1">>),
                 !.log = @ \o loggerInfo(lvl, <<"Workspace installed: ", "T1">>, <<>>)]

\* handleCallback from the answer of oauth.v2.access on
handleCallbackResume(response, rs, e, iv, dbOk, lvl) ==
  IF response = "threw"
  THEN Wrote(ErrorRedirect(e, <<"exchange_failed">>), <<>>, rs,
             loggerError(lvl, <<"OAuth callback error:">>, <<"Network Error">>))
  ELSE IF response = "refused"
  THEN Wrote(ErrorRedirect(e, <<"invalid_code">>), <<>>, rs,
             loggerError(lvl, <<"OAuth token exchange failed:">>, <<"invalid_code">>))
  ELSE Installed(saveWorkspace(Str(<<"k">>), rs, e, iv, dbOk, lvl), e, lvl)

-----------------------------------------------------------------------------
(* The OAuth routes GET /slack/install and GET /slack/oauth/callback *)

\* SLACK_REDIRECT_URI set, and unset
OAuthEnvs == {ValidEnv @@ "SLACK_REDIRECT_URI" :> <<"r">>, ValidEnv}

\* the states initiateOAuth can draw
NewStates == {HexEncode(b) : b \in randomBytes(StateBytes)}

\* the query of a callback: Slack's denial, which carries the state; no
\* state; a state never issued; a state initiateOAuth can draw
CallbackQueries ==
  {[code |-> Null, state |-> Str(s), error |-> Str(<<"access_denied">>)] :
     s \in NewStates}
  \cup {[code |-> Str(<<"c">>), state |-> s, error |-> Null] :
          s \in {Null, Str(<<"f">>)} \cup {Str(s) : s \in NewStates}}

InitOAuth ==
  /\ env \in OAuthEnvs
  /\ currentLevel = LOG_LEVELS.DEBUG
  /\ now = 1001
  /\ pc = "idle"
  /\ req = NoRequest
  /\ at = 0
  /\ res = <<>>
  /\ nextCalls = 0
  /\ handlerCalls = 0
  /\ sideEffects = 0
  /\ logs = <<>>
  /\ acceptCount = 0
  /\ deliveries = 0
  /\ proc = "running"
  /\ enc = NoEncrypt
  /\ dec = NoDecrypt
  /\ rows = NoRows
  /\ queries = <<>>
  /\ cmd = NoCommand
  /\ AppIdle

\* what the OAuth routes leave alone
OAuthUnchanged ==
  UNCHANGED <<env, currentLevel, pc, req, at, res, nextCalls, handlerCalls,
              sideEffects, acceptCount, deliveries, proc, enc, dec, cmd,
              rateLimitMap, served, logArgs, slack_tests, posts, hooks, command,
              hook, backendTests>>

\* the events of oauthLog with op and state
Events(log, op, state) ==
  {i \in 1..Len(log) : log[i].op = op /\ log[i].state = state}

\* GET /slack/install
Install ==
  /\ Cardinality({i \in 1..Len(oauthLog) : oauthLog[i].op \in {"issue", "refuse"}})
       < MaxInstalls
  /\ \E state \in NewStates :
       LET r == initiateOAuth(env, oauthStates, state, now, currentLevel)
       IN /\ oauthStates' = r.states
          /\ oauthLog' = Append(oauthLog,
                           [op |-> IF r.issued THEN "issue" ELSE "refuse",
                            state |-> state])
          /\ logs' = r.log
  /\ UNCHANGED <<now, callbacks, rows, queries>>
  /\ OAuthUnchanged

\* GET /slack/oauth/callback arrives
Callback ==
  /\ Len(callbacks) < MaxCallbacks
  /\ \E query \in CallbackQueries :
       LET r == handleCallback(query, oauthStates, env, currentLevel)
       IN /\ oauthStates' = r.states
          /\ callbacks' = Append(callbacks,
                            [query |-> query, exchange |-> r.exchange,
                             saved |-> FALSE, res |-> r.res])
          /\ oauthLog' = IF r.exchange
                         THEN Append(oauthLog, [op |-> "exchange",
                                                state |-> query.state.str])
                         ELSE oauthLog
          /\ logs' = r.log
  /\ UNCHANGED <<now, rows, queries>>
  /\ OAuthUnchanged

\* oauth.v2.access answers a callback that waits for it
Resume ==
  /\ \E i \in 1..Len(callbacks), response \in ExchangeResponses,
        iv \in randomBytes(IV_LENGTH), dbOk \in BOOLEAN :
       /\ callbacks[i].exchange /\ callbacks[i].res = <<>>
       /\ LET r == handleCallbackResume(response, rows, env, iv, dbOk, currentLevel)
          IN /\ callbacks' = [callbacks EXCEPT ![i].res = <<r.result>>,
                                               ![i].saved = r.queries # <<>>]
             /\ rows' = r.rows
             /\ queries' = r.queries
             /\ logs' = r.log
  /\ UNCHANGED <<now, oauthStates, oauthLog>>
  /\ OAuthUnchanged

\* five minutes pass and the cleaning interval runs
Interval ==
  /\ now < 1001 + MaxIntervals * cleanEvery
  /\ now' = now + cleanEvery
  /\ oauthStates' = cleanStates(oauthStates, now')
  /\ UNCHANGED <<callbacks, oauthLog, rows, queries, logs>>
  /\ OAuthUnchanged

NextOAuth == Install \/ Callback \/ Resume \/ Interval

SpecOAuth == InitOAuth /\ [][NextOAuth]_vars

-----------------------------------------------------------------------------
(* Claims about the OAuth routes *)

\* the states that occur in oauthLog
LoggedStates == {oauthLog[i].state : i \in 1..Len(oauthLog)}

\* whenever a callback reached the token exchange with state s, s had been
\* issued more often than it had been used before
ExchangeOnlyOfIssued ==
  \A k \in 1..Len(oauthLog), s \in LoggedStates :
     Cardinality(Events(SubSeq(oauthLog, 1, k), "exchange", s))
       <= Cardinality(Events(SubSeq(oauthLog, 1, k), "issue", s))

\* C21 as stated: a callback reaches the token exchange and saveWorkspace
\* only with a state issued earlier and not used since, and every other
\* callback that carries a state is redirected with error=invalid_state
C21_AllOthersInvalidState ==
  /\ ExchangeOnlyOfIssued
  /\ \A i \in 1..Len(callbacks) :
       /\ callbacks[i].saved => callbacks[i].exchange
       /\ (~callbacks[i].exchange /\ ~Not(callbacks[i].query.state))
            => callbacks[i].res = <<ErrorRedirect(env, <<"invalid_state">>)>>

\* C21 (amended): a callback reaches the token exchange and saveWorkspace
\* only with a state issued earlier and not used since, so each issued state
\* is exchanged at most once in any interleaving; every other callback
\* without an error parameter is redirected with error=invalid_state, and a
\* callback with an error parameter is redirected with that error and
\* leaves the state in the map
C21_StateSingleUse ==
  /\ ExchangeOnlyOfIssued
  /\ \A i \in 1..Len(callbacks) :
       LET c == callbacks[i]
       IN /\ c.saved => c.exchange
          /\ c.exchange => (Not(c.query.error) /\ ~Not(c.query.state))
          /\ (~c.exchange /\ Not(c.query.error))
               => c.res = <<ErrorRedirect(env, <<"invalid_state">>)>>
          /\ ~Not(c.query.error)
               => (~c.exchange /\ c.res = <<ErrorRedirect(env, c.query.error.str)>>)

\* a callback waits for oauth.v2.access while a second callback with the
\* same state, issued once, has been redirected with error=invalid_state
C21_Witness ==
  /\ Len(callbacks) = 2
  /\ callbacks[1].exchange /\ callbacks[1].res = <<>>
  /\ callbacks[2].query = callbacks[1].query
  /\ Cardinality(Events(oauthLog, "issue", callbacks[1].query.state.str)) = 1
  /\ ~callbacks[2].exchange
  /\ callbacks[2].res = <<ErrorRedirect(env, <<"invalid_state">>)>>

-----------------------------------------------------------------------------
(* middleware/auth.js: rateLimit; the routes the entry module registers *)

\* the requests and the passages of time the model follows
MaxServed == 3
MaxElapse == 3
\* the time that passes in one step
Step == 10

CleanupSize == 10000

\* req.ip || req.headers['x-forwarded-for'] || 'unknown'
ClientKey(request) ==
  IF ~Not(request.ip) THEN request.ip.str
  ELSE IF ~Not(request.forwarded) THEN request.forwarded.str
  ELSE <<"unknown">>

\* the entry the middleware counts the request in
WindowEntry(windowMs, key, map, t) ==
  IF key \notin DOMAIN map \/ t - map[key].windowStart > windowMs
  THEN [count |-> 0, windowStart |-> t]
  ELSE map[key]

\* the map after the entries of expired windows were deleted, which
\* happens once it holds more than 10000 keys
CleanUp(windowMs, map, t) ==
  IF Cardinality(DOMAIN map) > CleanupSize
  THEN [k \in {x \in DOMAIN map : ~(t - map[x].windowStart > windowMs)} |-> map[k]]
  ELSE map

\* what the middleware did: the map afterwards, whether it called next(),
\* the response it sent, what it logged
Limited(map, passed, key, lvl) ==
  [map |-> map, next |-> passed,
   res |-> IF passed THEN <<>>
           ELSE <<[status |-> 429, body |-> [error |-> "Too many requests"]]>>,
   log |-> IF passed THEN <<>>
           ELSE loggerWarn(lvl, <<"Rate limit exceeded for ">> \o key, <<>>)]

\* the middleware refusing the request that reaches the limit
rateLimitAtLimit(maxRequests, windowMs, request, map, t, lvl) ==
  LET key == ClientKey(request)
      entry == WindowEntry(windowMs, key, map, t)
      counted == [entry EXCEPT !.count = @ + 1]
  IN Limited(CleanUp(windowMs, MapSet(map, key, counted), t),
             ~(counted.count >= maxRequests), key, lvl)

\* the middleware rateLimit(maxRequests, windowMs) returns, called on request
rateLimit(maxRequests, windowMs, request, map, t, lvl) ==
  LET key == ClientKey(request)
      entry == WindowEntry(windowMs, key, map, t)
      counted == [entry EXCEPT !.count = @ + 1]
  IN Limited(CleanUp(windowMs, MapSet(map, key, counted), t),
             ~(counted.count > maxRequests), key, lvl)

\* the functions registered for each route, in the order they run
Routes ==
  [r \in {"/slack/install", "/slack/oauth/callback", "/slack/success",
          "/webhooks/deffatest", "/health"} |->
     IF r = "/slack/install" THEN <<"initiateOAuth">>
     ELSE IF r = "/slack/oauth/callback" THEN <<"handleCallback">>
     ELSE IF r = "/slack/success" THEN <<"successPage">>
     ELSE IF r = "/webhooks/deffatest"
     THEN <<"verifyDeffatestWebhook", "handleWebhook">>
     ELSE <<"health">>]

\* no middleware of rateLimit
NoLimiter == [maxRequests |-> 0, windowMs |-> 0]

\* the router hands the request to the functions of its route: the
\* limiter runs if one is registered, and then the next function
Dispatch(route, request, map, t, lvl) ==
  IF \E i \in 1..Len(Routes[route]) : Routes[route][i] = "rateLimit"
  THEN rateLimit(100, 60000, request, map, t, lvl)
  ELSE [map |-> map, next |-> TRUE, res |-> <<>>, log |-> <<>>]

-----------------------------------------------------------------------------
(* Requests to the routes, and to middleware made by rateLimit *)

\* two middleware instances; the window of the second is twice the first's
Limiters ==
  {[maxRequests |-> 1, windowMs |-> Step], [maxRequests |-> 2, windowMs |-> 2 * Step]}

\* a client with an address, and one without address and forwarding header
LimitRequests ==
  {[ip |-> Str(<<"10.0.0.1">>), forwarded |-> Null],
   [ip |-> Null, forwarded |-> Null]}

InitLimit ==
  /\ env = ValidEnv
  /\ currentLevel = LOG_LEVELS.DEBUG
  /\ now = 1001
  /\ pc = "idle"
  /\ req = NoRequest
  /\ at = 0
  /\ res = <<>>
  /\ nextCalls = 0
  /\ handlerCalls = 0
  /\ sideEffects = 0
  /\ logs = <<>>
  /\ acceptCount = 0
  /\ deliveries = 0
  /\ proc = "running"
  /\ enc = NoEncrypt
  /\ dec = NoDecrypt
  /\ rows = NoRows
  /\ queries = <<>>
  /\ cmd = NoCommand
  /\ AppIdle

\* what the limiter and the router leave alone
LimitUnchanged ==
  UNCHANGED <<env, currentLevel, pc, req, at, res, nextCalls, handlerCalls,
              sideEffects, acceptCount, deliveries, secretVars, oauthStates,
              callbacks, oauthLog, logArgs, slack_tests, posts, hooks, command,
              hook, backendTests>>

\* the request was answered, or handed on
Served(route, limiter, request, r) ==
  /\ rateLimitMap' = r.map
  /\ logs' = r.log
  /\ served' = Append(served,
       [route |-> route, limiter |-> limiter, key |-> ClientKey(request),
        at |-> now, next |-> r.next, res |-> r.res,
        entry |-> IF ClientKey(request) \in DOMAIN r.map
                  THEN r.map[ClientKey(request)]
                  ELSE [count |-> 0, windowStart |-> 0]])
  /\ UNCHANGED now
  /\ LimitUnchanged

\* a request arrives on one of the routes
Serve ==
  /\ Len(served) < MaxServed
  /\ \E route \in DOMAIN Routes :
       LET request == [ip |-> Str(<<"10.0.0.1">>), forwarded |-> Null]
       IN Served(route, NoLimiter, request,
                 Dispatch(route, request, rateLimitMap, now, currentLevel))

\* a request arrives at a middleware made by rateLimit
Limit ==
  /\ Len(served) < MaxServed
  /\ \E limiter \in Limiters, request \in LimitRequests :
       Served("", limiter, request,
              rateLimit(limiter.maxRequests, limiter.windowMs, request,
                        rateLimitMap, now, currentLevel))

\* time passes
Elapse ==
  /\ now < 1001 + MaxElapse * Step
  /\ now' = now + Step
  /\ UNCHANGED <<rateLimitMap, served, logs>>
  /\ LimitUnchanged

NextLimit == Serve \/ Limit \/ Elapse

SpecLimit == InitLimit /\ [][NextLimit]_vars

-----------------------------------------------------------------------------
(* Claims about rate limiting *)

\* the requests a middleware of rateLimit was called on
LimiterCalls == {i \in 1..Len(served) : served[i].limiter # NoLimiter}

\* the call of a limiter before call i with the same client key, 0 if none
PreviousCall(i) ==
  IF \E j \in LimiterCalls : j < i /\ served[j].key = served[i].key
  THEN CHOOSE j \in LimiterCalls :
         /\ j < i /\ served[j].key = served[i].key
         /\ \A k \in LimiterCalls :
              (k < i /\ served[k].key = served[i].key) => k <= j
  ELSE 0

TooMany == <<[status |-> 429, body |-> [error |-> "Too many requests"]]>>

\* C22: on every route a request is counted by the rate limiter, which
\* answers 429 instead of the route's handler once the client is over the
\* allowed number
C22_EveryRouteLimited ==
  \A i \in 1..Len(served) :
     served[i].route # ""
       => /\ served[i].key \in DOMAIN rateLimitMap
          /\ \E k \in 1..Len(Routes[served[i].route]) :
               Routes[served[i].route][k] = "rateLimit"

-----------------------------------------------------------------------------
(* utils/logger.js: sanitize *)

\* the nesting depth of the objects the model logs
MaxDepth == 2

UpperCase == <<"A", "B", "C", "D", "E", "F", "G", "H", "I", "J", "K", "L", "M",
               "N", "O", "P", "Q", "R", "S", "T", "U", "V", "W", "X", "Y", "Z">>
LowerCase == <<"a", "b", "c", "d", "e", "f", "g", "h", "i", "j", "k", "l", "m",
               "n", "o", "p", "q", "r", "s", "t", "u", "v", "w", "x", "y", "z">>

\* String.prototype.toLowerCase on a string of characters
toLowerCase(s) ==
  [i \in 1..Len(s) |->
     IF \E k \in 1..Len(UpperCase) : UpperCase[k] = s[i]
     THEN LowerCase[CHOOSE k \in 1..Len(UpperCase) : UpperCase[k] = s[i]]
     ELSE s[i]]

\* String.prototype.includes
includes(s, sub) ==
  \E i \in 0..(Len(s) - Len(sub)) : SubSeq(s, i + 1, i + Len(sub)) = sub

\* the characters of a name
Chars(name) ==
  CASE name = "token" -> <<"t", "o", "k", "e", "n">>
    [] name = "api_key" -> <<"a", "p", "i", "_", "k", "e", "y">>
    [] name = "apiKey" -> <<"a", "p", "i", "K", "e", "y">>
    [] name = "password" -> <<"p", "a", "s", "s", "w", "o", "r", "d">>
    [] name = "secret" -> <<"s", "e", "c", "r", "e", "t">>
    [] name = "bot_token" -> <<"b", "o", "t", "_", "t", "o", "k", "e", "n">>
    [] name = "access_token" ->
         <<"a", "c", "c", "e", "s", "s", "_", "t", "o", "k", "e", "n">>
    [] name = "authorization" ->
         <<"a", "u", "t", "h", "o", "r", "i", "z", "a", "t", "i", "o", "n">>
    [] name = "credential" -> <<"c", "r", "e", "d", "e", "n", "t", "i", "a", "l">>
    [] name = "Authorization" ->
         <<"A", "u", "t", "h", "o", "r", "i", "z", "a", "t", "i", "o", "n">>
    [] name = "API_KEY" -> <<"A", "P", "I", "_", "K", "E", "Y">>
    [] name = "clientSecret" ->
         <<"c", "l", "i", "e", "n", "t", "S", "e", "c", "r", "e", "t">>
    [] name = "user" -> <<"u", "s", "e", "r">>
    [] name = "data" -> <<"d", "a", "t", "a">>
    [] name = "0" -> <<"0">>

sensitiveKeys ==
  <<"token", "api_key", "apiKey", "password", "secret", "bot_token",
    "access_token", "authorization", "credential">>

\* sensitiveKeys.some(sk => key.toLowerCase().includes(sk))
IsSensitive(key) ==
  \E i \in 1..Len(sensitiveKeys) :
     includes(toLowerCase(Chars(key)), Chars(sensitiveKeys[i]))

\* values: a string, null, an object with its fields by name; an array is
\* an object whose fields are named by its indices
StringValue(s) == [type |-> "string", str |-> s, fields |-> EmptyMap]
NullValue == [type |-> "null", str |-> <<>>, fields |-> EmptyMap]
ObjectValue(fields) == [type |-> "object", str |-> <<>>, fields |-> fields]
ArrayValue(fields) == [type |-> "array", str |-> <<>>, fields |-> fields]

Redacted == StringValue(<<"[REDACTED]">>)

\* typeof v === 'object'
IsObject(v) == v.type \in {"object", "array", "null"}

\* sanitize; the copy { ...obj } of an array is an object
RECURSIVE sanitize(_)
sanitize(obj) ==
  IF ~IsObject(obj) \/ obj.type = "null" THEN obj
  ELSE ObjectValue(
         [key \in DOMAIN obj.fields |->
            IF IsSensitive(key) THEN Redacted
            ELSE IF IsObject(obj.fields[key]) THEN sanitize(obj.fields[key])
            ELSE obj.fields[key]])

\* args.map(sanitize)
SanitizeAll(args) == [i \in 1..Len(args) |-> sanitize(args[i])]

-----------------------------------------------------------------------------
(* Calls of the logger with an object *)

\* the names of the fields the model logs
FieldNames ==
  {"token", "apiKey", "api_key", "API_KEY", "Authorization", "clientSecret",
   "bot_token", "user"}

\* an object with one field that holds a string
Flat == {ObjectValue(name :> StringValue(<<"xoxb-1">>)) : name \in FieldNames}

\* the objects nested depth deep: in a field named data, or in an array
RECURSIVE Nested(_)
Nested(depth) ==
  IF depth = 0 THEN Flat
  ELSE {ObjectValue("data" :> v) : v \in Nested(depth - 1)}
       \cup {ArrayValue("0" :> v) : v \in Nested(depth - 1)}

\* the arguments of a call: a string, null, or an object
LogArguments ==
  {<<StringValue(<<"xoxb-1">>)>>, <<NullValue>>}
  \cup {<<v>> : v \in UNION {Nested(d) : d \in 0..MaxDepth}}

InitLog ==
  /\ env \in {ValidEnv, ValidEnv @@ "NODE_ENV" :> <<"production">>}
  /\ currentLevel =
       IF "NODE_ENV" \in DOMAIN env /\ env["NODE_ENV"] = <<"production">>
       THEN LOG_LEVELS.INFO ELSE LOG_LEVELS.DEBUG
  /\ now = 1001
  /\ pc = "idle"
  /\ req = NoRequest
  /\ at = 0
  /\ res = <<>>
  /\ nextCalls = 0
  /\ handlerCalls = 0
  /\ sideEffects = 0
  /\ logs = <<>>
  /\ acceptCount = 0
  /\ deliveries = 0
  /\ proc = "running"
  /\ enc = NoEncrypt
  /\ dec = NoDecrypt
  /\ rows = NoRows
  /\ queries = <<>>
  /\ cmd = NoCommand
  /\ AppIdle

\* what a call of the logger leaves alone
LogUnchanged ==
  UNCHANGED <<env, currentLevel, now, pc, req, at, res, nextCalls, handlerCalls,
              sideEffects, acceptCount, deliveries, secretVars, oauthStates,
              callbacks, oauthLog, rateLimitMap, served, slack_tests, posts,
              hooks, command,
              hook, backendTests>>

\* a method of the logger is called with args
LogError ==
  /\ \E args \in LogArguments :
       /\ logArgs' = args
       /\ logs' = loggerError(currentLevel, <<"m">>, SanitizeAll(args))
  /\ LogUnchanged

LogWarn ==
  /\ \E args \in LogArguments :
       /\ logArgs' = args
       /\ logs' = loggerWarn(currentLevel, <<"m">>, SanitizeAll(args))
  /\ LogUnchanged

LogInfo ==
  /\ \E args \in LogArguments :
       /\ logArgs' = args
       /\ logs' = loggerInfo(currentLevel, <<"m">>, SanitizeAll(args))
  /\ LogUnchanged

LogDebug ==
  /\ \E args \in LogArguments :
       /\ logArgs' = args
       /\ logs' = loggerDebug(currentLevel, <<"m">>, SanitizeAll(args))
  /\ LogUnchanged

NextLog == LogError \/ LogWarn \/ LogInfo \/ LogDebug

SpecLog == InitLog /\ [][NextLog]_vars

-----------------------------------------------------------------------------
(* Claims about the logger *)

\* the listed name sk occurs in key, letter case aside
NamedSensitive(key) ==
  \E i \in 1..Len(sensitiveKeys) :
     includes(toLowerCase(Chars(key)), toLowerCase(Chars(sensitiveKeys[i])))

\* no field of v, at any depth, that is named sensitive holds anything but
\* '[REDACTED]'
RECURSIVE NothingSensitive(_)
NothingSensitive(v) ==
  v.type \in {"object", "array"}
    => \A key \in DOMAIN v.fields :
          IF NamedSensitive(key) THEN v.fields[key] = Redacted
          ELSE NothingSensitive(v.fields[key])

\* C23: what reaches the console for an object argument holds '[REDACTED]'
\* in every field, at any depth, whose name contains one of the listed
\* names, letter case aside
C23_SensitiveFieldsRedacted ==
  \A i \in 1..Len(logs) :
     \A k \in 1..Len(logs[i].args) : NothingSensitive(logs[i].args[k])

-----------------------------------------------------------------------------
(* controllers/commands.js: parseArgs, and the URL constructor *)

\* \w, \s and \S of the regular expression
IsWordChar(c) ==
  \/ \E k \in 1..Len(LowerCase) : c = LowerCase[k] \/ c = UpperCase[k]
  \/ c \in {"0", "1", "2", "3", "4", "5", "6", "7", "8", "9", "_"}
IsSpace(c) == c = " "

IsNoSpace(c) == ~IsSpace(c)
IsNoQuote(c) == c # "\""

\* the characters of a URL's scheme after its first letter, and the slash
IsSchemeChar(c) == (IsWordChar(c) /\ c # "_") \/ c \in {"+", "-", "."}
IsSlash(c) == c = "/"

\* c is of the character class: \w, \s, \S, [^"], a scheme's, the slash
Is(class, c) ==
  CASE class = "word" -> IsWordChar(c)
    [] class = "space" -> IsSpace(c)
    [] class = "nospace" -> IsNoSpace(c)
    [] class = "noquote" -> IsNoQuote(c)
    [] class = "scheme" -> IsSchemeChar(c)
    [] class = "slash" -> IsSlash(c)

\* the end of the longest run of characters of the class from position i
\* on, i - 1 if there is none
RunEnd(text, i, class) ==
  IF i > Len(text) THEN i - 1
  ELSE CHOOSE j \in (i - 1)..Len(text) :
         /\ \A k \in i..j : Is(class, text[k])
         /\ j = Len(text) \/ ~Is(class, text[j + 1])

NoMatch == [found |-> FALSE, key |-> <<>>, value |-> <<>>, end |-> 0]

\* the value of a match whose key ends at keyEnd and whose white space ends
\* at gap: "([^"]+)" if it matches, else (\S+)
MatchValue(text, i, keyEnd, gap) ==
  LET quoted == /\ gap + 1 <= Len(text) /\ text[gap + 1] = "\""
                /\ RunEnd(text, gap + 2, "noquote") >= gap + 2
                /\ RunEnd(text, gap + 2, "noquote") + 1 <= Len(text)
      bare == RunEnd(text, gap + 1, "nospace")
  IN IF quoted
     THEN [found |-> TRUE, key |-> SubSeq(text, i + 2, keyEnd),
           value |-> SubSeq(text, gap + 2, RunEnd(text, gap + 2, "noquote")),
           end |-> RunEnd(text, gap + 2, "noquote") + 1]
     ELSE IF bare >= gap + 1
     THEN [found |-> TRUE, key |-> SubSeq(text, i + 2, keyEnd),
           value |-> SubSeq(text, gap + 1, bare), end |-> bare]
     ELSE NoMatch

\* the match of /--(\w+)\s+(?:"([^"]+)"|(\S+))/ that starts at position i
MatchAt(text, i) ==
  IF ~(i + 1 <= Len(text) /\ text[i] = "-" /\ text[i + 1] = "-") THEN NoMatch
  ELSE IF RunEnd(text, i + 2, "word") < i + 2 THEN NoMatch
  ELSE IF RunEnd(text, RunEnd(text, i + 2, "word") + 1, "space")
            <= RunEnd(text, i + 2, "word")
  THEN NoMatch
  ELSE MatchValue(text, i, RunEnd(text, i + 2, "word"),
                  RunEnd(text, RunEnd(text, i + 2, "word") + 1, "space"))

\* the loop over regex.exec from lastIndex on: args[key] = value
RECURSIVE ExecAll(_, _, _)
ExecAll(text, lastIndex, args) ==
  IF \E i \in (lastIndex + 1)..Len(text) : MatchAt(text, i).found
  THEN LET i == CHOOSE i \in (lastIndex + 1)..Len(text) :
                  /\ MatchAt(text, i).found
                  /\ \A j \in (lastIndex + 1)..(i - 1) : ~MatchAt(text, j).found
           m == MatchAt(text, i)
       IN ExecAll(text, m.end, MapSet(args, m.key, Str(m.value)))
  ELSE args

Help == <<"h", "e", "l", "p">>
DashUrl == <<"-", "-", "u", "r", "l">>
True == Str(<<"true">>)

\* parseArgs: the arguments by name
parseArgs(text) ==
  IF text = <<>> THEN EmptyMap
  ELSE IF includes(text, Help) \/ text = Help
  THEN MapSet(ExecAll(text, 0, EmptyMap), Help, True)
  ELSE ExecAll(text, 0, EmptyMap)

\* args[name], undefined if there is none
Arg(args, name) == IF name \in DOMAIN args THEN args[name] ELSE Null

\* new URL(s) does not throw: s starts with a scheme, and the scheme of the
\* web is followed by a host
IsLetter(c) == \E k \in 1..Len(LowerCase) : c = LowerCase[k] \/ c = UpperCase[k]
Https == <<"h", "t", "t", "p", "s">>
URLValid(s) ==
  LET colon == RunEnd(s, 1, "scheme") + 1
  IN /\ s # <<>> /\ IsLetter(s[1])
     /\ colon <= Len(s) /\ s[colon] = ":"
     /\ toLowerCase(SubSeq(s, 1, colon - 1)) \in {Https, SubSeq(Https, 1, 4)}
          => RunEnd(s, colon + 1, "slash") < Len(s)

\* what handleTestCommand reads from the text
CommandArgs(text) ==
  LET args == parseArgs(text)
  IN [help |-> ~Not(Arg(args, Help)), url |-> Arg(args, <<"u", "r", "l">>),
      mentionsUrl |-> includes(text, DashUrl),
      validUrl |-> ~Not(Arg(args, <<"u", "r", "l">>))
                   /\ URLValid(Arg(args, <<"u", "r", "l">>).str)]

-----------------------------------------------------------------------------
(* services/database.js: slack_tests; controllers/webhooks.js *)

NoBugs == [critical |-> 0, high |-> 0, medium |-> 0, low |-> 0]

\* bugs?.name || 0: 0 when bugs is null and when it lacks the count
BugCount(bugs, name) == IF name \in DOMAIN bugs THEN bugs[name] ELSE 0

\* the row INSERT INTO slack_tests makes, with the defaults of the schema
NewTest(testData) ==
  [slack_user_id |-> testData.slack_user_id,
   slack_channel_id |-> testData.slack_channel_id,
   status |-> "running", bugs |-> NoBugs, completed_at |-> "NULL"]

\* INSERT ... ON CONFLICT (test_id) DO NOTHING; the error is logged and
\* thrown again
saveTest(tests, testData, dbOk, lvl) ==
  IF ~dbOk
  THEN [tests |-> tests, threw |-> TRUE,
        log |-> loggerError(lvl, <<"Failed to save test:">>, <<DbError>>)]
  ELSE [tests |-> IF testData.test_id \in DOMAIN tests THEN tests
                  ELSE MapSet(tests, testData.test_id, NewTest(testData)),
        threw |-> FALSE, log |-> <<>>]

\* the UPDATE without the ELSE NULL of completed_at
UpdatedTestKeepTimestamp(row, status, bugs) ==
  [row EXCEPT !.status = status,
              !.bugs = [name \in DOMAIN NoBugs |-> BugCount(bugs, name)],
              !.completed_at = IF status = "completed" THEN "CURRENT_TIMESTAMP"
                               ELSE @]

\* the row after UPDATE slack_tests SET ... WHERE test_id = $6
UpdatedTest(row, status, bugs) ==
  [row EXCEPT !.status = status,
              !.bugs = [name \in DOMAIN NoBugs |-> BugCount(bugs, name)],
              !.completed_at = IF status = "completed" THEN "CURRENT_TIMESTAMP"
                               ELSE "NULL"]

\* updateTestStatus: the error is logged and dropped
updateTestStatus(tests, testId, status, bugs, dbOk, lvl) ==
  IF ~dbOk
  THEN [tests |-> tests, updated |-> FALSE, threw |-> FALSE,
        log |-> loggerError(lvl, <<"Failed to update test status:">>, <<DbError>>)]
  ELSE [tests |-> IF testId \in DOMAIN tests
                  THEN [tests EXCEPT ![testId] = UpdatedTest(@, status, bugs)]
                  ELSE tests,
        updated |-> testId \in DOMAIN tests, threw |-> FALSE, log |-> <<>>]

\* a call of chat.postMessage and whether it succeeded
Post(channel, text, ok) == [channel |-> channel, text |-> text, ok |-> ok]

\* what a handler of a webhook event did: the table afterwards, its calls
\* of chat.postMessage, what it logged, whether getTestInfo gave the test,
\* whether the UPDATE changed a row, whether it threw
Handled(tests, sent, log, found, updated, threw) ==
  [tests |-> tests, posts |-> sent, log |-> log, found |-> found,
   updated |-> updated, threw |-> threw]

ChatError == "channel_not_found"

\* the data of a webhook body; a body without data
Data(test_id, bugs, critical, high) ==
  [present |-> TRUE, test_id |-> test_id, bugs |-> bugs, critical |-> critical,
   high |-> high]
NoData == [Data("", EmptyMap, 0, 0) EXCEPT !.present = FALSE]

\* handleTestCompleted with the direct message sent before the channel's
handleCompletedUserFirst(data, info, tests, db, chat, lvl) ==
  IF ~info.object
  THEN Handled(tests, <<>>,
               info.log \o loggerWarn(lvl, <<"Test not found in database: ",
                                             data.test_id>>, <<>>),
               FALSE, FALSE, FALSE)
  ELSE LET u == updateTestStatus(tests, data.test_id, "completed", data.bugs,
                                 db.write, lvl)
           row == tests[data.test_id]
       IN IF ~chat.user
          THEN Handled(u.tests,
                       <<Post(row.slack_user_id,
                              "Your Deffatest test has completed!", FALSE)>>,
                       u.log \o loggerError(lvl,
                         <<"Failed to send completion notification:">>, <<ChatError>>),
                       TRUE, u.updated, FALSE)
          ELSE IF ~chat.channel
          THEN Handled(u.tests,
                       <<Post(row.slack_user_id,
                              "Your Deffatest test has completed!", TRUE),
                         Post(row.slack_channel_id, "Test completed!", FALSE)>>,
                       u.log \o loggerError(lvl,
                         <<"Failed to send completion notification:">>, <<ChatError>>),
                       TRUE, u.updated, FALSE)
          ELSE Handled(u.tests,
                       <<Post(row.slack_user_id,
                              "Your Deffatest test has completed!", TRUE),
                         Post(row.slack_channel_id, "Test completed!", TRUE)>>,
                       u.log \o loggerInfo(lvl,
                         <<"Completion notification sent for test ", data.test_id>>,
                         <<>>),
                       TRUE, u.updated, FALSE)

\* handleTestCompleted without the try block around the posts
handleCompletedUncaught(data, info, tests, db, chat, lvl) ==
  IF ~info.object
  THEN Handled(tests, <<>>,
               info.log \o loggerWarn(lvl, <<"Test not found in database: ",
                                             data.test_id>>, <<>>),
               FALSE, FALSE, FALSE)
  ELSE LET u == updateTestStatus(tests, data.test_id, "completed", data.bugs,
                                 db.write, lvl)
           row == tests[data.test_id]
       IN IF ~chat.channel
          THEN Handled(u.tests,
                       <<Post(row.slack_channel_id, "Test completed!", FALSE)>>,
                       u.log, TRUE, u.updated, TRUE)
          ELSE IF ~chat.user
          THEN Handled(u.tests,
                       <<Post(row.slack_channel_id, "Test completed!", TRUE),
                         Post(row.slack_user_id,
                              "Your Deffatest test has completed!", FALSE)>>,
                       u.log, TRUE, u.updated, TRUE)
          ELSE Handled(u.tests,
                       <<Post(row.slack_channel_id, "Test completed!", TRUE),
                         Post(row.slack_user_id,
                              "Your Deffatest test has completed!", TRUE)>>,
                       u.log \o loggerInfo(lvl,
                         <<"Completion notification sent for test ", data.test_id>>,
                         <<>>),
                       TRUE, u.updated, FALSE)

\* handleTestCompleted; info is what getTestInfo(test_id) gave
handleCompleted(data, info, tests, db, chat, lvl) ==
  IF ~info.object
  THEN Handled(tests, <<>>,
               info.log \o loggerWarn(lvl, <<"Test not found in database: ",
                                             data.test_id>>, <<>>),
               FALSE, FALSE, FALSE)
  ELSE LET u == updateTestStatus(tests, data.test_id, "completed", data.bugs,
                                 db.write, lvl)
           row == tests[data.test_id]
       IN IF ~chat.channel
          THEN Handled(u.tests,
                       <<Post(row.slack_channel_id, "Test completed!", FALSE)>>,
                       u.log \o loggerError(lvl,
                         <<"Failed to send completion notification:">>, <<ChatError>>),
                       TRUE, u.updated, FALSE)
          ELSE IF ~chat.user
          THEN Handled(u.tests,
                       <<Post(row.slack_channel_id, "Test completed!", TRUE),
                         Post(row.slack_user_id,
                              "Your Deffatest test has completed!", FALSE)>>,
                       u.log \o loggerError(lvl,
                         <<"Failed to send completion notification:">>, <<ChatError>>),
                       TRUE, u.updated, FALSE)
          ELSE Handled(u.tests,
                       <<Post(row.slack_channel_id, "Test completed!", TRUE),
                         Post(row.slack_user_id,
                              "Your Deffatest test has completed!", TRUE)>>,
                       u.log \o loggerInfo(lvl,
                         <<"Completion notification sent for test ", data.test_id>>,
                         <<>>),
                       TRUE, u.updated, FALSE)

\* handleTestFailed
handleFailed(data, info, tests, db, chat, lvl) ==
  IF ~info.object
  THEN Handled(tests, <<>>,
               info.log \o loggerWarn(lvl, <<"Test not found: ", data.test_id>>, <<>>),
               FALSE, FALSE, FALSE)
  ELSE LET u == updateTestStatus(tests, data.test_id, "failed", EmptyMap,
                                 db.write, lvl)
       IN Handled(u.tests,
                  <<Post(tests[data.test_id].slack_channel_id, "Test failed",
                         chat.channel)>>,
                  IF chat.channel THEN u.log
                  ELSE u.log \o loggerError(lvl,
                         <<"Failed to send failure notification:">>, <<ChatError>>),
                  TRUE, u.updated, FALSE)

\* handleBugsFound: getTestInfo is called for a critical or high count only
handleBugs(data, info, tests, chat, lvl) ==
  IF data.critical = 0 /\ data.high = 0
  THEN Handled(tests, <<>>, <<>>, FALSE, FALSE, FALSE)
  ELSE IF ~info.object THEN Handled(tests, <<>>, info.log, FALSE, FALSE, FALSE)
  ELSE Handled(tests,
               <<Post(tests[data.test_id].slack_channel_id, "Bug alert",
                      chat.channel)>>,
               IF chat.channel THEN <<>>
               ELSE loggerError(lvl, <<"Failed to send bug alert:">>, <<ChatError>>),
               TRUE, FALSE, FALSE)

\* the handler of an event; destructuring data that is missing throws
Dispatched(body, info, tests, db, chat, lvl) ==
  IF body.event \in {"test.completed", "test.failed", "bugs.found"}
     /\ ~body.data.present
  THEN Handled(tests, <<>>, <<>>, FALSE, FALSE, TRUE)
  ELSE IF body.event = "test.completed"
  THEN handleCompleted(body.data, info, tests, db, chat, lvl)
  ELSE IF body.event = "test.failed"
  THEN handleFailed(body.data, info, tests, db, chat, lvl)
  ELSE IF body.event = "bugs.found"
  THEN handleBugs(body.data, info, tests, chat, lvl)
  ELSE IF body.event = "test.progress"
  THEN Handled(tests, <<>>, <<>>, FALSE, FALSE, FALSE)
  ELSE Handled(tests, <<>>,
               loggerDebug(lvl, <<"Unknown webhook event:">>, <<body.event>>),
               FALSE, FALSE, FALSE)

\* handleWebhook on a parsed body
handleEvent(body, info, tests, db, chat, lvl) ==
  [Dispatched(body, info, tests, db, chat, lvl)
     EXCEPT !.log = loggerInfo(lvl, <<"Webhook received: ", body.event>>, <<>>) \o @]

\* the route's answer once handleWebhook returned or threw
RouteAnswer(threw) ==
  IF threw THEN [status |-> 500, body |-> [error |-> "Internal error"]]
  ELSE [status |-> 200, body |-> [success |-> TRUE]]

------------------------------------------------------------------------
(* /deffatest commands and webhook events about the tests they start *)

\* the test_ids the backend gives, and one it never gave
TestIds == {"t1"}
WebhookIds == TestIds \cup {"t0"}

Space == <<" ">>
UrlA == Https \o <<":", "/", "/", "a", ".", "c", "o">>
UrlHelp == Https \o <<":", "/", "/">> \o Help \o <<".", "c", "o">>

\* the texts of the command: none, help, --url without a value, with a
\* value that is no URL, with a URL, quoted, with a duration, and with a
\* URL that has help in its host
CommandTexts ==
  {<<>>, Help, DashUrl, DashUrl \o Space \o <<"n", "o">>,
   DashUrl \o Space \o UrlA,
   DashUrl \o Space \o <<"\"">> \o UrlA \o <<"\"">>,
   DashUrl \o Space \o UrlA \o Space \o <<"-", "-", "d", " ", "2", "h">>,
   DashUrl \o Space \o UrlHelp}

\* the bodies of verified webhooks
WebhookBodies ==
  {[event |-> "test.completed", data |-> Data(id, bugs, 0, 0)] :
     id \in WebhookIds,
     bugs \in {EmptyMap, [name \in {"critical", "medium"} |->
                            IF name = "critical" THEN 1 ELSE 2]}}
  \cup {[event |-> "test.failed", data |-> Data(id, EmptyMap, 0, 0)] :
          id \in WebhookIds}
  \cup {[event |-> "bugs.found", data |-> Data(id, EmptyMap, critical, 0)] :
          id \in WebhookIds, critical \in {0, 1}}
  \cup {[event |-> event, data |-> Data("t1", EmptyMap, 0, 0)] :
          event \in {"test.progress", "test.started"}}
  \cup {[event |-> "test.completed", data |-> NoData]}

\* the workspace and the user's link are stored; the user has no link; the
\* workspace's token was damaged in the store
TrackingRows ==
  {[workspaces |-> Stored, user_links |-> Stored, tests |-> FALSE],
   [workspaces |-> Stored, user_links |-> NoRow, tests |-> FALSE]}
  \cup {[workspaces |-> [Stored EXCEPT !.secret = Str(t), !.damaged = TRUE],
         user_links |-> Stored, tests |-> FALSE] :
          t \in Damaged(Stored.secret.str)}

InitTests ==
  /\ env = ValidEnv
  /\ currentLevel = LOG_LEVELS.DEBUG
  /\ now = 1001
  /\ pc = "idle"
  /\ req = NoRequest
  /\ at = 0
  /\ res = <<>>
  /\ nextCalls = 0
  /\ handlerCalls = 0
  /\ sideEffects = 0
  /\ logs = <<>>
  /\ acceptCount = 0
  /\ deliveries = 0
  /\ proc = "running"
  /\ enc = NoEncrypt
  /\ dec = NoDecrypt
  /\ rows \in TrackingRows
  /\ queries = <<>>
  /\ cmd = NoCommand
  /\ AppIdle

\* what commands and webhooks leave alone
TestsUnchanged ==
  UNCHANGED <<env, currentLevel, now, pc, req, at, res, nextCalls, handlerCalls,
              sideEffects, acceptCount, deliveries, secretVars, oauthStates,
              callbacks, oauthLog, rateLimitMap, served, logArgs>>

\* what the store and the chat service do to the calls of one handler: the
\* SELECT fails; or it succeeds and the UPDATE, the post to the channel and,
\* after that one, the post to the user each succeed or fail
Fates ==
  {[read |-> FALSE, write |-> TRUE, channel |-> TRUE, user |-> TRUE]}
  \cup {f \in [read : {TRUE}, write : BOOLEAN, channel : BOOLEAN, user : BOOLEAN] :
          f.channel \/ f.user}

\* getTestInfo on each of TrackingRows, with and without the test's row
TestInfos ==
  [r \in TrackingRows, tracked \in BOOLEAN, read \in BOOLEAN |->
     getTestInfo([r EXCEPT !.tests = tracked], ValidEnv, read, LOG_LEVELS.DEBUG)]

\* handleTestCommand on each text and each of TrackingRows, saveTest taken
\* to succeed
Commands ==
  [text \in CommandTexts, r \in TrackingRows, dbOk \in BOOLEAN, apiOk \in BOOLEAN |->
     handleTestCommand(CommandArgs(text), r, ValidEnv, dbOk, apiOk, TRUE,
                       LOG_LEVELS.DEBUG)]

\* the command ran into saveTest
ReachedSave(c) == c.responded = <<"Submitting test...", "Test started!">>

\* /deffatest is handled up to the call of saveTest; test_id is what the
\* backend answers to submitWebTest
CommandStart ==
  /\ command.pc # "saving"
  /\ \E text \in CommandTexts, test_id \in TestIds, dbOk, apiOk \in BOOLEAN :
       \E c \in {Commands[text, rows, dbOk, apiOk]} :
          /\ ReachedSave(c) => test_id \notin backendTests
          /\ command' =
               IF ReachedSave(c)
               THEN [pc |-> "saving", text |-> text,
                     responded |-> <<"Submitting test...">>,
                     test_id |-> test_id, log |-> c.userLink.log]
               ELSE [pc |-> "done", text |-> text, responded |-> c.responded,
                     test_id |-> "", log |-> c.log]
          /\ backendTests' =
               IF ReachedSave(c) THEN backendTests \cup {test_id} ELSE backendTests
          /\ logs' = IF ReachedSave(c) THEN c.userLink.log ELSE c.log
  /\ hook' = <<>>
  /\ posts' = <<>>
  /\ UNCHANGED <<slack_tests, hooks>>
  /\ TestsUnchanged

\* saveTest answers and the command ends
CommandSave ==
  /\ command.pc = "saving"
  /\ \E saveOk \in BOOLEAN :
       LET s == saveTest(slack_tests,
                         [test_id |-> command.test_id, slack_user_id |-> "U1",
                          slack_channel_id |-> "C1"],
                         saveOk, currentLevel)
           log == IF s.threw
                  THEN s.log \o loggerError(currentLevel,
                                 <<"Test command error:">>, <<DbError>>)
                  ELSE loggerInfo(currentLevel,
                         <<"Test submitted: ", command.test_id, " by ", "U1">>, <<>>)
       IN /\ slack_tests' = s.tests
          /\ command' = [command EXCEPT
                           !.pc = "done",
                           !.responded = @ \o <<IF s.threw THEN "Error"
                                                ELSE "Test started!">>,
                           !.log = @ \o log]
          /\ logs' = log
  /\ hook' = <<>>
  /\ posts' = <<>>
  /\ UNCHANGED <<backendTests, hooks>>
  /\ TestsUnchanged

\* the route's handler runs on a verified webhook
Webhook ==
  /\ \E body \in WebhookBodies, fate \in Fates :
       LET id == body.data.test_id
           h == handleEvent(body,
                            TestInfos[rows, (id \in DOMAIN slack_tests), fate.read],
                            slack_tests, fate, fate, currentLevel)
       IN /\ slack_tests' = h.tests
          /\ posts' = h.posts
          /\ logs' = h.log
          /\ hook' = <<[body |-> body, found |-> h.found, updated |-> h.updated,
                        threw |-> h.threw, res |-> RouteAnswer(h.threw),
                        before |-> slack_tests,
                        saving |-> command.pc = "saving" /\ command.test_id = id]>>
          /\ hooks' =
               IF body.event \in {"test.completed", "test.failed"} /\ ~h.threw
               THEN MapSet(hooks, id,
                      [handled |-> body.event,
                       updated |-> IF h.updated THEN body.event
                                   ELSE IF id \in DOMAIN hooks THEN hooks[id].updated
                                   ELSE "none"])
               ELSE hooks
  /\ command' = IF command.pc = "saving" THEN command ELSE NoTestCommand
  /\ UNCHANGED backendTests
  /\ TestsUnchanged

NextTests == CommandStart \/ CommandSave \/ Webhook

SpecTests == InitTests /\ [][NextTests]_vars

-----------------------------------------------------------------------------
(* C24: a command with a valid URL starts a test *)

\* a word of the text, between white space, is help or --help
HelpRequested(text) ==
  \E i \in 1..Len(text) :
    /\ i = 1 \/ IsSpace(text[i - 1])
    /\ SubSeq(text, i, RunEnd(text, i, "nospace")) \in {Help, <<"-", "-">> \o Help}

\* the text has --url followed by a value that is a URL
ValidUrlGiven(text) ==
  \E i \in 1..Len(text) :
    /\ MatchAt(text, i).found
    /\ MatchAt(text, i).key = <<"u", "r", "l">>
    /\ URLValid(MatchAt(text, i).value)

\* C24: when a command has ended, it showed the help message only if help
\* was requested or the text has no --url; and if its text has --url with
\* a valid URL, its user has an account link and it logged no error, it
\* submitted a test to the backend and the test's tracking record is saved.
C24_ValidUrlStartsTest ==
  command.pc = "done" =>
    /\ command.responded = <<"help">> =>
         HelpRequested(command.text) \/ ~includes(command.text, DashUrl)
    /\ /\ ValidUrlGiven(command.text)
       /\ rows.user_links = Stored
       /\ \A k \in DOMAIN command.log : command.log[k].level # "ERROR"
       => /\ command.responded = <<"Submitting test...", "Test started!">>
          /\ command.test_id \in backendTests
          /\ command.test_id \in DOMAIN slack_tests

-----------------------------------------------------------------------------
(* C25: the completion notification *)

\* the webhook handled last is a test.completed with data
CompletedHandled ==
  /\ hook # <<>>
  /\ hook[1].body.event = "test.completed"
  /\ hook[1].body.data.present

\* the row of the counts a webhook reports
Reported(bugs) == [name \in DOMAIN NoBugs |-> BugCount(bugs, name)]

\* an error was logged by the handler of the last webhook
ErrorLogged(message) ==
  \E k \in DOMAIN logs : logs[k].level = "ERROR" /\ logs[k].message = <<message>>

\* C25 as stated: after a test.completed webhook for a test that had a
\* tracking record, the test's status is 'completed' with the reported
\* counts and the message was posted to the channel and then to the user;
\* for a test without a record the table is unchanged and nothing is posted.
C25_CompletedThenBothPosts ==
  CompletedHandled =>
    LET id == hook[1].body.data.test_id
    IN IF id \in DOMAIN hook[1].before
       THEN /\ slack_tests[id].status = "completed"
            /\ slack_tests[id].bugs = Reported(hook[1].body.data.bugs)
            /\ Len(posts) = 2
            /\ posts[1].channel = hook[1].before[id].slack_channel_id
            /\ posts[2].channel = hook[1].before[id].slack_user_id
       ELSE slack_tests = hook[1].before /\ posts = <<>>

\* C25, amended: after a test.completed webhook for which getTestInfo gave
\* the test's record, the status is 'completed' with the reported counts
\* unless the UPDATE failed, which is logged and leaves the table as it
\* was; in both cases the message is posted to the channel first, and to
\* the user after it exactly if the post to the channel succeeded. If
\* getTestInfo gave no record, the table is unchanged and nothing is posted;
\* that is so for a test without a record, and for a test with a record
\* only if the failure to read it was logged.
C25_CompletedThenChannelThenUser ==
  CompletedHandled =>
    LET id == hook[1].body.data.test_id
        before == hook[1].before
    IN /\ hook[1].found =>
            /\ id \in DOMAIN before
            /\ \/ slack_tests =
                    [before EXCEPT ![id] = [@ EXCEPT
                       !.status = "completed",
                       !.bugs = Reported(hook[1].body.data.bugs),
                       !.completed_at = "CURRENT_TIMESTAMP"]]
               \/ /\ slack_tests = before
                  /\ ErrorLogged("Failed to update test status:")
            /\ Len(posts) \in {1, 2}
            /\ posts[1].channel = before[id].slack_channel_id
            /\ Len(posts) = 2 <=> posts[1].ok
            /\ Len(posts) = 2 => posts[2].channel = before[id].slack_user_id
       /\ ~hook[1].found =>
            /\ slack_tests = before
            /\ posts = <<>>
            /\ id \in DOMAIN before =>
                 \E k \in DOMAIN logs : logs[k].level = "ERROR"
       /\ id \notin DOMAIN before => ~hook[1].found

\* a test.completed webhook for a tracked test set the status and was
\* posted to the channel and to the user
C25_Witness ==
  /\ CompletedHandled
  /\ hook[1].found
  /\ slack_tests[hook[1].body.data.test_id].status = "completed"
  /\ slack_tests[hook[1].body.data.test_id].bugs.critical = 1
  /\ hook[1].before[hook[1].body.data.test_id].status = "running"
  /\ Len(posts) = 2
  /\ posts[1].ok /\ posts[2].ok

-----------------------------------------------------------------------------
(* C26: a webhook about a test that a command started *)

\* the webhook handled last is one that notifies: test.completed,
\* test.failed, or bugs.found with a critical or high count
NotifyingHandled ==
  /\ hook # <<>>
  /\ hook[1].body.data.present
  /\ \/ hook[1].body.event \in {"test.completed", "test.failed"}
     \/ /\ hook[1].body.event = "bugs.found"
        /\ hook[1].body.data.critical # 0 \/ hook[1].body.data.high # 0

\* C26: a notifying webhook for a test the backend accepted from a command,
\* handled with the workspace's token readable and without a logged error,
\* found the tracking record and posted its notification, also when the
\* command was still between submitWebTest and the end of saveTest.
C26_StartedTestNotified ==
  /\ NotifyingHandled
  /\ hook[1].body.data.test_id \in backendTests
  /\ rows.workspaces = Stored
  /\ \A k \in DOMAIN logs : logs[k].level # "ERROR"
  => /\ hook[1].found
     /\ posts # <<>>
     /\ \A k \in DOMAIN posts : posts[k].ok

-----------------------------------------------------------------------------
(* C28: the status of a tracked test *)

\* the status a test.completed or test.failed webhook stands for
StatusOf(event) ==
  CASE event = "test.completed" -> "completed"
    [] event = "test.failed" -> "failed"
    [] OTHER -> "running"

\* the last test.completed or test.failed webhook handled for the test, and
\* the last one whose UPDATE changed the test's row; "none" if there is none
LastHandled(id) == IF id \in DOMAIN hooks THEN hooks[id].handled ELSE "none"
LastUpdated(id) == IF id \in DOMAIN hooks THEN hooks[id].updated ELSE "none"

\* completed_at is non-null exactly when the status is 'completed'
TimestampOfCompleted(id) ==
  slack_tests[id].completed_at # "NULL" <=> slack_tests[id].status = "completed"

\* the webhook handled last is a test.progress, a bugs.found or of an
\* unknown kind
OtherHandled ==
  /\ hook # <<>>
  /\ hook[1].body.event \notin {"test.completed", "test.failed"}

\* the webhook handled last is a test.failed for a test that was completed
FailedAfterCompleted ==
  /\ hook # <<>>
  /\ hook[1].body.event = "test.failed"
  /\ hook[1].body.data.test_id \in DOMAIN hook[1].before
  /\ hook[1].before[hook[1].body.data.test_id].status = "completed"

\* C28 as stated: the status of every tracked test is the kind of the last
\* test.completed or test.failed webhook handled for it, 'running' if there
\* is none; completed_at is non-null exactly when the status is
\* 'completed'; a test.failed after a test.completed leaves the test
\* 'failed' with all counts zero and no completed_at; the other kinds leave
\* the table unchanged.
C28_StatusOfLastWebhook ==
  /\ \A id \in DOMAIN slack_tests :
       /\ slack_tests[id].status = StatusOf(LastHandled(id))
       /\ TimestampOfCompleted(id)
  /\ FailedAfterCompleted =>
       LET id == hook[1].body.data.test_id
       IN /\ slack_tests[id].status = "failed"
          /\ slack_tests[id].bugs = NoBugs
          /\ slack_tests[id].completed_at = "NULL"
  /\ OtherHandled => slack_tests = hook[1].before

\* C28, amended: the status of every tracked test is the kind of the last
\* test.completed or test.failed webhook whose UPDATE changed its row,
\* 'running' if there is none; completed_at is non-null exactly when the
\* status is 'completed', and a test that is not 'completed' has all
\* counts zero; a test.failed after a test.completed whose UPDATE changed
\* the row leaves the test 'failed' with all counts zero and no
\* completed_at, and one whose UPDATE did not leaves the row as it was; the
\* other kinds leave the table unchanged.
C28_StatusOfLastUpdate ==
  /\ \A id \in DOMAIN slack_tests :
       /\ slack_tests[id].status = StatusOf(LastUpdated(id))
       /\ TimestampOfCompleted(id)
       /\ slack_tests[id].status # "completed" => slack_tests[id].bugs = NoBugs
  /\ FailedAfterCompleted =>
       LET id == hook[1].body.data.test_id
       IN IF hook[1].updated
          THEN /\ slack_tests[id].status = "failed"
               /\ slack_tests[id].bugs = NoBugs
               /\ slack_tests[id].completed_at = "NULL"
          ELSE slack_tests = hook[1].before
  /\ OtherHandled => slack_tests = hook[1].before

\* a test.failed webhook set a completed test with a bug back to failed
C28_Witness ==
  /\ FailedAfterCompleted
  /\ hook[1].updated
  /\ hook[1].before[hook[1].body.data.test_id].bugs.critical = 1
  /\ hook[1].before[hook[1].body.data.test_id].completed_at = "CURRENT_TIMESTAMP"
  /\ slack_tests[hook[1].body.data.test_id].status = "failed"

-----------------------------------------------------------------------------
(* C29: a completion message that cannot be posted *)

\* the position of the first logged error with the message, 0 if none
ErrorAt(message) ==
  IF ErrorLogged(message)
  THEN CHOOSE k \in DOMAIN logs :
         /\ logs[k].level = "ERROR" /\ logs[k].message = <<message>>
         /\ \A j \in 1..(k - 1) :
              ~(logs[j].level = "ERROR" /\ logs[j].message = <<message>>)
  ELSE 0

\* the post to the channel of the last test.completed webhook failed
ChannelPostFailed ==
  /\ CompletedHandled
  /\ posts # <<>>
  /\ ~posts[1].ok
  /\ posts[1].text = "Test completed!"

\* C29 as stated: when a test.completed webhook has posted anything, the
\* test is 'completed'; when the post to the channel failed, no message to
\* the user was attempted, the status is 'completed', nothing is thrown and
\* the route answers 200 with {success: true}.
C29_UpdatePersistedBeforePosts ==
  /\ CompletedHandled /\ posts # <<>> =>
       slack_tests[hook[1].body.data.test_id].status = "completed"
  /\ ChannelPostFailed =>
       /\ Len(posts) = 1
       /\ ~hook[1].threw
       /\ hook[1].res = [status |-> 200, body |-> [success |-> TRUE]]

\* C29, amended: when a test.completed webhook has posted anything, the
\* UPDATE was issued before: the test is 'completed', or the failure of the
\* UPDATE is logged before any failure to notify. When the post to the channel
\* failed, no message to the user was attempted, the failure is logged, the
\* status the UPDATE set stays 'completed', nothing is thrown, and the route
\* answers 200 with {success: true}.
C29_PostFailureSwallowed ==
  /\ CompletedHandled /\ posts # <<>> =>
       LET id == hook[1].body.data.test_id
       IN \/ /\ hook[1].updated
             /\ slack_tests[id].status = "completed"
          \/ /\ ~hook[1].updated
             /\ ErrorLogged("Failed to update test status:")
             /\ ErrorLogged("Failed to send completion notification:") =>
                  ErrorAt("Failed to update test status:")
                    < ErrorAt("Failed to send completion notification:")
  /\ ChannelPostFailed =>
       /\ Len(posts) = 1
       /\ ErrorLogged("Failed to send completion notification:")
       /\ ~hook[1].threw
       /\ hook[1].res = [status |-> 200, body |-> [success |-> TRUE]]

\* the UPDATE of a test.completed webhook changed the row, the post to the
\* channel failed and the route answered 200
C29_Witness ==
  /\ ChannelPostFailed
  /\ hook[1].updated
  /\ hook[1].before[hook[1].body.data.test_id].status = "running"
  /\ slack_tests[hook[1].body.data.test_id].status = "completed"
  /\ hook[1].res.status = 200

====
